---- MODULE Spec2Model ----
(***************************************************************************)
(* A model of closeShave's backend: the search orchestrator of             *)
(* app/api/routes.py, the SQLite search cache of app/utils/database.py,    *)
(* the cache key of routes.get_cache_key and the per-domain rate limiter   *)
(* of app/utils/rate_limiter.py.                                           *)
(*                                                                         *)
(* Money is counted in mills (1/1000 dollar) so that rounding to two       *)
(* decimals is an operation and not the identity.  Text is a sequence of   *)
(* one-character strings.  Wall-clock time of the cache is counted in      *)
(* hours, time of the rate limiter in ticks.                               *)
(***************************************************************************)
EXTENDS Integers, Sequences, FiniteSets, TLC

VARIABLES
    \* ---- search_products (routes.py) ----
    request,              \* the validated SearchRequest
    config,               \* the settings the handler reads through app.config
    phase,                \* position of the handler: "start", "scraping", "done"
    merchants_to_search,  \* resolved merchant list
    cached_results,       \* merchant -> listings found in the cache
    all_products,         \* the merged listings
    tasks,                \* merchants with a search_merchant task, in order
    results,              \* per task: "pending" or what the task returned
    unitRaised,           \* per merchant: the stage at which its unit raised
    response,             \* the SearchResponse; status "none" until sent
    \* ---- Database (database.py) ----
    store,                \* rows of table search_cache
    nextId,               \* AUTOINCREMENT counter of search_cache.id
    utcNow,               \* wall clock, hours since day 0 00:00 UTC
    ticks,                \* hours the wall clock has advanced
    tzOffset,             \* local time zone, hours east of UTC
    writers,              \* per cache_search call in flight: its arguments
    lastWrite,            \* per cache_key: the last completed cache_search
    lastRead,             \* the last get_cached_search call and its result
    \* ---- get_cache_key (routes.py) ----
    keyArgs,              \* two argument triples (query, merchant, filters)
    keyOut,               \* the two keys computed for them, Nothing before
    \* ---- RateLimiter (rate_limiter.py) ----
    rlClock,              \* time.time(), in ticks
    last_request_time,    \* RateLimiter.last_request_time
    callers,              \* per caller of wait_if_needed: its position
    rlLog,                \* the completed wait_if_needed calls, in order
    \* ---- the HTTP layer and the cache faults of a request ----
    prevalidated,         \* search_validator.validate_query was called
    cacheFaults,          \* the cache calls of the request that raised
    \* ---- scraper instances (scrapers/base.py, scrapers/duckduckgo.py) ----
    scrapers,             \* per instance: merchant, position, own RateLimiter
    fetchLog,             \* the outbound search requests, in order
    \* ---- _parse_results / DuckDuckGoScraper.search on one result set ----
    parseIn,              \* the variant, the entries and max_results
    parseOut,             \* the products returned, Nothing before
    \* ---- BaseScraper._determine_availability ----
    availElement,         \* the availability element's text, Nothing if missing
    availResult,          \* the state returned, Nothing before
    \* ---- BaseScraper._extract_url / _extract_image_url ----
    urlIn,                \* the extractor, the element and base_url
    urlOut,               \* the URL returned, Nothing before
    \* ---- search_products: the calls of one request, in order ----
    lookups,              \* merchants whose cache entry was read
    completed,            \* the tasks in the order they finished
    stalled,              \* the tasks whose scraper never returns
    \* ---- Database.cleanup_expired ----
    lastSweep,            \* the last cleanup: rows before and after, clock
    \* ---- scraper units and their browser sessions (base.py) ----
    sessions,             \* per unit: its position and its browser
    \* ---- one call of a utility function ----
    callIn,               \* the function and its arguments
    callOut,              \* what it returned, Nothing before
    \* ---- GET /api/image-proxy (routes.py) ----
    proxy                 \* the request under way: URL, hops, GETs issued

searchVars == <<request, config, phase, merchants_to_search,
                cached_results, all_products, tasks, results, unitRaised,
                response>>
dbVars == <<store, nextId, utcNow, ticks, tzOffset, writers, lastWrite, lastRead>>
keyVars == <<keyArgs, keyOut>>
rlVars == <<rlClock, last_request_time, callers, rlLog>>
httpVars == <<prevalidated, cacheFaults>>
scraperVars == <<scrapers, fetchLog>>
parseVars == <<parseIn, parseOut>>
availVars == <<availElement, availResult>>
extVars == <<httpVars, scraperVars, parseVars, availVars>>
urlVars == <<urlIn, urlOut>>
traceVars == <<lookups, completed>>
lateVars == <<sessions, callIn, callOut, proxy>>
moreVars == <<urlVars, traceVars, stalled, lastSweep, lateVars>>
vars == <<searchVars, dbVars, keyVars, rlVars, extVars, moreVars>>

\* An Optional value: Nothing is Python's None, Some(v) a present value.
Nothing == <<>>
Some(v) == <<v>>

(***************************************************************************)
(* Bounds of the model.                                                    *)
(***************************************************************************)
MaxListings == 2      \* listings on one merchant's result page
MaxResultsCap == 4    \* largest max_results a request of the model asks for
MaxKeyLen == 2        \* longest query / merchant text given to get_cache_key
MaxTicks == 3         \* hours the cache clock advances
MaxClock == 4         \* last tick of the rate limiter's clock
MaxCalls == 3         \* wait_if_needed calls made in all
NumWriters == 2       \* concurrent cache_search calls
MaxWrites == 2        \* cache_search calls made in all
NumCallers == 2       \* callers of wait_if_needed
NumScrapers == 2      \* scraper instances alive at once
MaxFragments == 2     \* pieces an availability text is put together from
MaxEntries == 3       \* entries of one result set given to a parser
MaxSearches == 2      \* search calls made on the scraper instances in all

(***************************************************************************)
(* Text.                                                                   *)
(***************************************************************************)
Min(a, b) == IF a <= b THEN a ELSE b

UpperLetters ==
    <<"A", "B", "C", "D", "E", "F", "G", "H", "I", "J", "K", "L", "M",
      "N", "O", "P", "Q", "R", "S", "T", "U", "V", "W", "X", "Y", "Z">>
LowerLetters ==
    <<"a", "b", "c", "d", "e", "f", "g", "h", "i", "j", "k", "l", "m",
      "n", "o", "p", "q", "r", "s", "t", "u", "v", "w", "x", "y", "z">>

\* str.lower() on one character
LowerChar(c) ==
    IF \E i \in DOMAIN UpperLetters : UpperLetters[i] = c
    THEN LowerLetters[CHOOSE i \in DOMAIN UpperLetters : UpperLetters[i] = c]
    ELSE c
Lower(s) == [i \in 1..Len(s) |-> LowerChar(s[i])]

\* Python's `sub in s` for str
Contains(sub, s) ==
    \E i \in 0..(Len(s) - Len(sub)) : SubSeq(s, i + 1, i + Len(sub)) = sub

\* s[:n]
Take(s, n) == SubSeq(s, 1, Min(n, Len(s)))

(***************************************************************************)
(* PriceParser (price_parser.py).                                          *)
(***************************************************************************)
\* n / d rounded to the nearest integer, ties to even (Python's round)
RoundHalfEven(n, d) ==
    LET q == n \div d
        r == n % d
    IN  IF 2 * r < d THEN q
        ELSE IF 2 * r > d THEN q + 1
        ELSE IF q % 2 = 0 THEN q ELSE q + 1

\* normalize_price: round(price, 2), on mills
normalize_price(price) == 10 * RoundHalfEven(price, 10)

\* calculate_total without the final normalize_price
calculate_total_unrounded(base_price, shipping, tax) ==
    base_price + shipping + tax

\* calculate_total(base_price, shipping, tax)
calculate_total(base_price, shipping, tax) ==
    normalize_price(base_price + shipping + tax)

\* calculate_tax(base_price, tax_rate); the rate is counted in 1/100000
calculate_tax(base_price, tax_rate) ==
    10 * RoundHalfEven(base_price * tax_rate, 1000000)

(***************************************************************************)
(* GeolocationService (geolocation.py).                                    *)
(***************************************************************************)
\* get_location_from_ip(ip): without an ip the service returns None; with
\* one, what the provider resolved (None when the lookup failed).
get_location_from_ip(ip, resolved) == IF ip = Nothing THEN Nothing ELSE resolved

\* str.upper() on the state codes of the model
UpperState(s) == CASE s = "ca" -> "CA" [] s = "ny" -> "NY" [] s = "or" -> "OR"
                   [] s = "Ca" -> "CA" [] s = "zz" -> "ZZ"
                   [] OTHER -> s

\* STATE_TAX_RATES, the rows the model uses, in 1/100000
STATE_TAX_RATES == [CA |-> 7250, NY |-> 4000, OR |-> 0]

\* get_tax_rate(state)
get_tax_rate(state, cfg) ==
    IF state = "" THEN cfg.tax_default_rate
    ELSE IF UpperState(state) \in DOMAIN STATE_TAX_RATES
         THEN STATE_TAX_RATES[UpperState(state)]
         ELSE 0

\* merchant.lower() on the merchant names of the model
LowerMerchant(m) == CASE m = "Amazon" -> "amazon" [] m = "NewEgg" -> "newegg"
                      [] m = "AMAZON" -> "amazon" [] m = "eBay" -> "ebay"
                      [] m = "Walmart" -> "walmart" [] m = "Etsy" -> "etsy"
                      [] OTHER -> m

\* the estimate with the threshold price itself shipped free
estimate_shipping_inclusive(merchant, base_price, cfg) ==
    IF ~cfg.shipping_enabled THEN 0
    ELSE LET m == LowerMerchant(merchant)
         IN  CASE m = "amazon"  -> IF base_price >= 25000 THEN 0 ELSE 5990
               [] m = "walmart" -> IF base_price >= 35000 THEN 0 ELSE 5990
               [] m = "target"  -> IF base_price >= 35000 THEN 0 ELSE 5990
               [] m = "bestbuy" -> IF base_price >= 35000 THEN 0 ELSE 5990
               [] m = "newegg"  -> IF base_price >= 50000 THEN 0 ELSE 7990
               [] m = "ebay"    -> 5990
               [] OTHER         -> 5990

\* estimate_shipping(merchant, base_price)
estimate_shipping(merchant, base_price, cfg) ==
    IF ~cfg.shipping_enabled THEN 0
    ELSE LET m == LowerMerchant(merchant)
         IN  CASE m = "amazon"  -> IF base_price > 25000 THEN 0 ELSE 5990
               [] m = "walmart" -> IF base_price > 35000 THEN 0 ELSE 5990
               [] m = "target"  -> IF base_price > 35000 THEN 0 ELSE 5990
               [] m = "bestbuy" -> IF base_price > 35000 THEN 0 ELSE 5990
               [] m = "newegg"  -> IF base_price > 50000 THEN 0 ELSE 7990
               [] m = "ebay"    -> 5990
               [] OTHER         -> 5990

(***************************************************************************)
(* Listings.                                                               *)
(***************************************************************************)
\* A Product as a merchant's _parse_results builds it: price, base_price and
\* total_price all carry the parsed price, shipping_cost and tax are 0.
Scraped(merchant, title, base_price, availability) ==
    [title |-> title, price |-> base_price, base_price |-> base_price,
     shipping_cost |-> 0, tax |-> 0, total_price |-> base_price,
     merchant |-> merchant, availability |-> availability]

\* The entries a merchant's result page can hold in the model.
Catalog(m) ==
    CASE m = "amazon" ->
           {Scraped("amazon", <<"b", "A">>, 30000, "limited"),
            Scraped("amazon", <<"A", "b">>, 25000, "out_of_stock")}
      [] m = "newegg" ->
           {Scraped("newegg", <<"x", "A", "B">>, 24000, "in_stock"),
            Scraped("newegg", <<"a">>, 49999, "out_of_stock"),
            Scraped("newegg", <<"y">>, 22010, "in_stock")}
      [] OTHER -> {}

SeqsUpTo(S, n) == UNION {[1..k -> S] : k \in 0..n}

Pages(m) == SeqsUpTo(Catalog(m), MaxListings)

(***************************************************************************)
(* get_cache_key (routes.py).                                              *)
(***************************************************************************)
\* str() of an Optional number
OptStr(o) == IF o = Nothing THEN "None" ELSE ToString(o[1])

\* f"{filters!s}" for the dict the handler passes
DictStr(filters) ==
    <<"{", "'max_results'", ":", " ", ToString(filters.max_results), ",", " ",
      "'min_price'", ":", " ", OptStr(filters.min_price), ",", " ",
      "'max_price'", ":", " ", OptStr(filters.max_price), "}">>

\* f"{query}:{merchant}:{filters!s}"
key_data(query, merchant, filters) ==
    query \o <<":">> \o merchant \o <<":">> \o DictStr(filters)

\* hashlib.sha256(...).hexdigest(), taken to be collision-free: the digest
\* stands for the text it was computed from.
Sha256(text) == <<"sha256", text>>

get_cache_key(query, merchant, filters) ==
    Sha256(key_data(query, merchant, filters))

\* the filters dict search_products builds for the key
KeyFilters(req) ==
    [max_results |-> req.max_results, min_price |-> req.min_price,
     max_price |-> req.max_price]

(***************************************************************************)
(* Database (database.py).                                                 *)
(***************************************************************************)
\* json.dumps of [p.model_dump() for p in products]: one object per listing,
\* its members in field order
JsonDumps(products) ==
    [i \in 1..Len(products) |->
        <<products[i].title, products[i].price, products[i].base_price,
          products[i].shipping_cost, products[i].tax, products[i].total_price,
          products[i].merchant, products[i].availability>>]

\* json.loads of the stored text, each object read back as a Product
JsonLoads(text) ==
    [i \in 1..Len(text) |->
        [title |-> text[i][1], price |-> text[i][2], base_price |-> text[i][3],
         shipping_cost |-> text[i][4], tax |-> text[i][5],
         total_price |-> text[i][6], merchant |-> text[i][7],
         availability |-> text[i][8]]]

\* datetime.isoformat() of the naive local time h hours after day 0:
\* 'YYYY-MM-DD' 'T' 'HH:...'
IsoFormat(h) == [date |-> h \div 24, sep |-> "T", hour |-> h % 24]

\* SQLite's datetime('now'): UTC, 'YYYY-MM-DD' ' ' 'HH:MM:SS'
SqlDatetimeNow(utc) == [date |-> utc \div 24, sep |-> " ", hour |-> utc % 24]

\* code point of the separator character
SepCode(c) == IF c = "T" THEN 84 ELSE 32

\* a > b for two TEXT values under SQLite's BINARY collation
TextGreater(a, b) ==
    \/ a.date > b.date
    \/ a.date = b.date /\ SepCode(a.sep) > SepCode(b.sep)
    \/ a.date = b.date /\ SepCode(a.sep) = SepCode(b.sep) /\ a.hour > b.hour

\* datetime.now(): naive local time
LocalNow(utc, tz) == utc + tz

\* the rows SELECT ... WHERE cache_key = ? AND expires_at > datetime('now')
LiveRows(rows, cache_key, utc) ==
    {r \in rows : r.cache_key = cache_key
                  /\ TextGreater(r.expires_at, SqlDatetimeNow(utc))}

\* get_cached_search(cache_key): Nothing, or Some(listings)
get_cached_search(rows, cache_key, utc) ==
    LET live == LiveRows(rows, cache_key, utc)
    IN  IF live = {} THEN Nothing
        ELSE Some(JsonLoads((CHOOSE r \in live : \A o \in live : r.id <= o.id).data))

\* expires_at = datetime.now() + timedelta(hours=ttl_hours), as stored
ExpiresAt(utc, tz, ttl_hours) == IsoFormat(LocalNow(utc, tz) + ttl_hours)

\* INSERT with no conflict clause and no UNIQUE constraint
InsertOrReplace_plain(rows, row) == rows \cup {row}

\* INSERT OR REPLACE under UNIQUE(cache_key): the rows in conflict go, the
\* new row comes
InsertOrReplace(rows, row) ==
    {r \in rows : r.cache_key # row.cache_key} \cup {row}

\* the row cache_search inserts
CacheRow(id, cache_key, query, merchant, data, expires_at) ==
    [id |-> id, cache_key |-> cache_key, query |-> query,
     merchant |-> merchant, data |-> JsonDumps(data), expires_at |-> expires_at]

(***************************************************************************)
(* search_products (routes.py): the stages of the pipeline.                *)
(***************************************************************************)
\* the enrichment taxing a listing at the rate of the requester's state
\* although no location was resolved
enrich_product_with_tax_shipping_unresolved(product, location, cfg) ==
    LET loc == IF location = Nothing THEN cfg.geo_lookup ELSE location
        shipping_cost ==
            IF cfg.shipping_enabled
            THEN estimate_shipping(product.merchant, product.base_price, cfg)
            ELSE 0
        tax == IF cfg.tax_enabled /\ loc # Nothing
               THEN calculate_tax(product.base_price,
                                  get_tax_rate(loc[1].state, cfg))
               ELSE 0
        total_price == calculate_total(product.base_price, shipping_cost, tax)
    IN  [product EXCEPT !.shipping_cost = shipping_cost, !.tax = tax,
                        !.total_price = total_price, !.price = total_price]

\* the enrichment overwriting the base price with the total as well
enrich_product_with_tax_shipping_base(product, location, cfg) ==
    LET loc == IF location = Nothing
               THEN get_location_from_ip(Nothing, cfg.geo_lookup)
               ELSE location
        shipping_cost ==
            IF cfg.shipping_enabled
            THEN estimate_shipping(product.merchant, product.base_price, cfg)
            ELSE 0
        tax == IF cfg.tax_enabled /\ loc # Nothing
               THEN calculate_tax(product.base_price,
                                  get_tax_rate(loc[1].state, cfg))
               ELSE 0
        total_price == calculate_total(product.base_price, shipping_cost, tax)
    IN  [product EXCEPT !.shipping_cost = shipping_cost, !.tax = tax,
                        !.total_price = total_price, !.price = total_price,
                        !.base_price = total_price]

\* enrich_product_with_tax_shipping(product, location)
enrich_product_with_tax_shipping(product, location, cfg) ==
    LET loc == IF location = Nothing
               THEN get_location_from_ip(Nothing, cfg.geo_lookup)
               ELSE location
        shipping_cost ==
            IF cfg.shipping_enabled
            THEN estimate_shipping(product.merchant, product.base_price, cfg)
            ELSE 0
        tax == IF cfg.tax_enabled /\ loc # Nothing
               THEN calculate_tax(product.base_price,
                                  get_tax_rate(loc[1].state, cfg))
               ELSE 0
        total_price == calculate_total(product.base_price, shipping_cost, tax)
    IN  [product EXCEPT !.shipping_cost = shipping_cost, !.tax = tax,
                        !.total_price = total_price, !.price = total_price]

\* the filter with its price bounds exclusive
PassesFilters_exclusive(product, req) ==
    /\ ~(req.min_price # Nothing /\ product.base_price <= req.min_price[1])
    /\ ~(req.max_price # Nothing /\ product.base_price >= req.max_price[1])
    /\ ~(/\ req.brand # Nothing
         /\ req.brand[1] # <<>>
         /\ ~Contains(Lower(req.brand[1]), Lower(product.title)))

\* the three `continue` tests of the enrichment loop, negated
PassesFilters(product, req) ==
    /\ ~(req.min_price # Nothing /\ product.base_price < req.min_price[1])
    /\ ~(req.max_price # Nothing /\ product.base_price > req.max_price[1])
    /\ ~(/\ req.brand # Nothing
         /\ req.brand[1] # <<>>
         /\ ~Contains(Lower(req.brand[1]), Lower(product.title)))

\* the enrichment loop: the listings that pass the filters, enriched, in order
RECURSIVE EnrichAll(_, _, _, _)
EnrichAll(products, req, location, cfg) ==
    IF products = <<>> THEN <<>>
    ELSE LET rest == EnrichAll(Tail(products), req, location, cfg)
         IN  IF PassesFilters(Head(products), req)
             THEN <<enrich_product_with_tax_shipping(Head(products), location, cfg)>>
                  \o rest
             ELSE rest

\* the sort keyed on the price before enrichment
SortKey_base(p) == p.base_price

\* the key of enriched_products.sort
SortKey(p) == p.total_price

\* list.sort is stable: x goes after every element whose key is not larger
InsertStable(sorted, x) ==
    LET k == Cardinality({i \in 1..Len(sorted) : SortKey(sorted[i]) <= SortKey(x)})
    IN  SubSeq(sorted, 1, k) \o <<x>> \o SubSeq(sorted, k + 1, Len(sorted))

RECURSIVE SortProducts(_)
SortProducts(products) ==
    IF products = <<>> THEN <<>>
    ELSE InsertStable(SortProducts(SubSeq(products, 1, Len(products) - 1)),
                      products[Len(products)])

\* [p for p in products if p.availability != "out_of_stock"] when out is
\* FALSE, [p for p in products if p.availability == "out_of_stock"] when TRUE
RECURSIVE SelectStock(_, _)
SelectStock(products, out) ==
    IF products = <<>> THEN <<>>
    ELSE IF (Head(products).availability = "out_of_stock") = out
         THEN <<Head(products)>> \o SelectStock(Tail(products), out)
         ELSE SelectStock(Tail(products), out)

\* in_stock + out_of_stock, or in_stock alone
StockPartition(products, include_out_of_stock) ==
    IF include_out_of_stock
    THEN SelectStock(products, FALSE) \o SelectStock(products, TRUE)
    ELSE SelectStock(products, FALSE)

\* final_products[: request.max_results]
Truncate(products, max_results) == Take(products, max_results)

\* the merge loop giving up at the first task that brought nothing
RECURSIVE MergeResults_stop(_, _)
MergeResults_stop(all, gathered) ==
    IF gathered = <<>> \/ Head(gathered).value = <<>> THEN all
    ELSE MergeResults_stop(all \o Head(gathered).value, Tail(gathered))

\* the results merged in the order given
RECURSIVE MergeInOrder(_, _, _)
MergeInOrder(all, gathered, order) ==
    IF order = <<>> THEN all
    ELSE MergeInOrder(all \o gathered[Head(order)].value, gathered, Tail(order))

\* the merge taking the results as the tasks finish
MergeResults_as_completed(all, gathered) ==
    MergeInOrder(all, gathered, completed)

\* the loop over the gathered results: only lists are merged
RECURSIVE MergeResults(_, _)
MergeResults(all, gathered) ==
    IF gathered = <<>> THEN all
    ELSE MergeResults(IF Head(gathered).isList THEN all \o Head(gathered).value
                      ELSE all,
                      Tail(gathered))

\* the pipeline with the truncation made before the stock partition
FinalProducts_truncate_early(products, req, location, cfg) ==
    StockPartition(Truncate(SortProducts(EnrichAll(products, req, location, cfg)),
                            req.max_results),
                   req.include_out_of_stock)

\* everything after the merge: enrich and filter, sort, partition, truncate
FinalProducts(products, req, location, cfg) ==
    Truncate(StockPartition(SortProducts(EnrichAll(products, req, location, cfg)),
                            req.include_out_of_stock),
             req.max_results)

(***************************************************************************)
(* search_products (routes.py): the handler.                               *)
(***************************************************************************)
Range(f) == {f[i] : i \in DOMAIN f}

\* SCRAPERS: the merchants that have a scraper class
SCRAPERS == {"amazon", "ebay", "walmart", "target", "bestbuy", "newegg",
             "duckduckgo"}

\* the check that lets every merchant through
get_merchant_enabled_any(merchant, cfg) == TRUE

\* config.get_merchant_enabled(merchant)
get_merchant_enabled(merchant, cfg) ==
    \E i \in DOMAIN cfg.merchants :
        cfg.merchants[i].name = merchant /\ cfg.merchants[i].enabled

\* the merchants enabled in settings, in the order of the settings
RECURSIVE EnabledMerchants(_)
EnabledMerchants(entries) ==
    IF entries = <<>> THEN <<>>
    ELSE IF Head(entries).enabled
         THEN <<Head(entries).name>> \o EnabledMerchants(Tail(entries))
         ELSE EnabledMerchants(Tail(entries))

\* merchants_to_search = request.merchants or [], else the enabled ones
ResolveMerchants(req, cfg) ==
    IF req.merchants # Nothing /\ req.merchants[1] # <<>>
    THEN req.merchants[1]
    ELSE EnabledMerchants(cfg.merchants)

\* the key the handler computes for a merchant
RequestKey(req, merchant) ==
    get_cache_key(req.query, <<merchant>>, KeyFilters(req))

\* the cache-lookup loop: the merchants it calls db.get_cached_search for
RECURSIVE CacheLookups(_, _)
CacheLookups(mts, cfg) ==
    IF mts = <<>> \/ ~cfg.cache_enabled THEN <<>>
    ELSE (IF get_merchant_enabled(Head(mts), cfg) THEN <<Head(mts)>> ELSE <<>>)
         \o CacheLookups(Tail(mts), cfg)

\* the cache-lookup loop: cached_results
LookupCache(mts, req, cfg, rows, utc) ==
    LET found(m) == get_cached_search(rows, RequestKey(req, m), utc)
        hit == {m \in Range(mts) :
                   /\ cfg.cache_enabled
                   /\ get_merchant_enabled(m, cfg)
                   /\ found(m) # Nothing
                   /\ found(m)[1] # <<>>}
    IN  [m \in hit |-> found(m)[1]]

\* the merchant loop: the cached listings it puts into all_products
RECURSIVE CachedProducts(_, _, _)
CachedProducts(mts, cached, cfg) ==
    IF mts = <<>> THEN <<>>
    ELSE (IF get_merchant_enabled(Head(mts), cfg) /\ Head(mts) \in DOMAIN cached
          THEN cached[Head(mts)] ELSE <<>>)
         \o CachedProducts(Tail(mts), cached, cfg)

\* the merchant loop: the merchants it creates a search_merchant task for
RECURSIVE TaskMerchants(_, _, _)
TaskMerchants(mts, cached, cfg) ==
    IF mts = <<>> THEN <<>>
    ELSE (IF /\ get_merchant_enabled(Head(mts), cfg)
             /\ Head(mts) \notin DOMAIN cached
             /\ Head(mts) \in SCRAPERS
          THEN <<Head(mts)>> ELSE <<>>)
         \o TaskMerchants(Tail(mts), cached, cfg)

\* how a unit can end without raising: its scraper returned the parsed
\* listings, or [] because robots.txt disallows the search URL (base.py,
\* lines 53-55)
Returns == {"none", "disallowed"}

\* where a merchant's unit can raise
Stages == {"construct", "browser", "robots", "pacing", "fetch", "parse"}

\* BaseScraper.search catches what the fetch and the parse raise; what is
\* raised before its try block (and by the scraper's construction and
\* __aenter__) leaves it
EscapesScraper(stage) == stage \in {"construct", "browser", "robots", "pacing"}

\* BaseScraper.search when it returns: the first max_results entries of the
\* page, or [] after a failure it caught or a robots.txt that disallows
ScraperSearch(stage, page, max_results) ==
    IF stage = "none" THEN Take(page, max_results) ELSE <<>>

\* search_merchant(m, sc): what the task returns
search_merchant(stage, page, req) ==
    IF EscapesScraper(stage)
    THEN [done |-> TRUE, isList |-> TRUE, value |-> <<>>]
    ELSE [done |-> TRUE, isList |-> TRUE,
          value |-> ScraperSearch(stage, page, req.max_results)]

Pending == [done |-> FALSE, isList |-> FALSE, value |-> <<>>]

NoResponse ==
    [status |-> "none", products |-> <<>>, total_results |-> 0,
     cached |-> FALSE, location |-> Nothing]

\* lines 123-212: resolve the merchants, read the cache, queue the tasks
StartSearch ==
    /\ phase = "start"
    /\ LET mts == ResolveMerchants(request, config)
           cached == LookupCache(mts, request, config, store, utcNow)
           queued == TaskMerchants(mts, cached, config)
       IN  /\ merchants_to_search' = mts
           /\ cached_results' = cached
           /\ all_products' = CachedProducts(mts, cached, config)
           /\ tasks' = queued
           /\ results' = [i \in 1..Len(queued) |-> Pending]
           /\ unitRaised' = [i \in 1..Len(queued) |-> "pending"]
           /\ lookups' = CacheLookups(mts, config)
    /\ phase' = "scraping"
    /\ UNCHANGED <<request, config, response>>
    /\ UNCHANGED <<dbVars, keyVars, rlVars>>
    /\ UNCHANGED extVars
    /\ UNCHANGED <<urlVars, completed, stalled, lastSweep, lateVars>>

\* lines 181-210: one search_merchant task runs to its end; the stage at
\* which it fails, if any, and the page the merchant serves are the
\* environment's choice
RunUnit(i) ==
    /\ phase = "scraping"
    /\ i \in 1..Len(tasks)
    /\ ~results[i].done
    /\ \E stage \in Stages \cup Returns, page \in Pages(tasks[i]) :
         LET m == tasks[i]
             r == search_merchant(stage, page, request)
             written == ~EscapesScraper(stage) /\ config.cache_enabled
             row == CacheRow(nextId, RequestKey(request, m), request.query, m,
                             r.value,
                             ExpiresAt(utcNow, tzOffset, config.cache_ttl_hours))
         IN  /\ results' = [results EXCEPT ![i] = r]
             /\ unitRaised' = [unitRaised EXCEPT ![i] = stage]
             /\ store' = IF written THEN InsertOrReplace(store, row) ELSE store
             /\ nextId' = IF written THEN nextId + 1 ELSE nextId
    /\ completed' = Append(completed, i)
    /\ UNCHANGED <<request, config, phase, merchants_to_search,
                   cached_results, all_products, tasks, response>>
    /\ UNCHANGED <<utcNow, ticks, tzOffset, writers, lastWrite, lastRead>>
    /\ UNCHANGED <<keyVars, rlVars>>
    /\ UNCHANGED extVars
    /\ UNCHANGED <<urlVars, lookups, stalled, lastSweep, lateVars>>

\* lines 214-262: gather, merge, enrich, filter, sort, partition, truncate
Respond ==
    /\ phase = "scraping"
    /\ \A i \in 1..Len(tasks) : results[i].done
    /\ LET merged == MergeResults(all_products, results)
           location == get_location_from_ip(Nothing, config.geo_lookup)
           final == FinalProducts(merged, request, location, config)
       IN  /\ all_products' = merged
           /\ response' = [status |-> "success", products |-> final,
                           total_results |-> Len(final),
                           cached |-> DOMAIN cached_results # {},
                           location |-> location]
    /\ phase' = "done"
    /\ UNCHANGED <<request, config, merchants_to_search,
                   cached_results, tasks, results, unitRaised>>
    /\ UNCHANGED <<dbVars, keyVars, rlVars>>
    /\ UNCHANGED extVars
    /\ UNCHANGED moreVars

(***************************************************************************)
(* Database (database.py): the calls as steps.                             *)
(***************************************************************************)
\* a cache_search call not in flight; no get_cached_search call made yet
IdleWriter == [pc |-> "idle", cache_key |-> Nothing, data |-> <<>>,
               ttl_hours |-> 0, expires_at |-> IsoFormat(0), began |-> 0]
NoRead == [made |-> FALSE, cache_key |-> Nothing, result |-> Nothing,
           written |-> Nothing, fresh |-> FALSE, expired |-> FALSE]

\* cache_search, line 88: expires_at is computed from datetime.now() before
\* the connection is opened
CacheSearchBegin(w, cache_key, data, ttl_hours) ==
    /\ writers[w].pc = "idle"
    /\ nextId + Cardinality({v \in DOMAIN writers : writers[v].pc = "ready"})
          <= MaxWrites
    /\ writers' = [writers EXCEPT ![w] =
                      [pc |-> "ready", cache_key |-> cache_key, data |-> data,
                       ttl_hours |-> ttl_hours,
                       expires_at |-> ExpiresAt(utcNow, tzOffset, ttl_hours),
                       began |-> utcNow]]
    /\ UNCHANGED <<store, nextId, utcNow, ticks, tzOffset, lastWrite, lastRead>>
    /\ UNCHANGED <<searchVars, keyVars, rlVars>>
    /\ UNCHANGED extVars
    /\ UNCHANGED moreVars

\* cache_search, lines 90-96: the INSERT OR REPLACE and its commit
CacheSearchCommit(w) ==
    /\ writers[w].pc = "ready"
    /\ store' = InsertOrReplace(store,
                   CacheRow(nextId, writers[w].cache_key, <<"t", "v">>, "amazon",
                            writers[w].data, writers[w].expires_at))
    /\ nextId' = nextId + 1
    /\ lastWrite' = [k \in DOMAIN lastWrite \cup {writers[w].cache_key} |->
                        IF k = writers[w].cache_key
                        THEN [id |-> nextId, data |-> writers[w].data,
                              ttl_hours |-> writers[w].ttl_hours,
                              began |-> writers[w].began]
                        ELSE lastWrite[k]]
    /\ writers' = [writers EXCEPT ![w] = IdleWriter]
    /\ UNCHANGED <<utcNow, ticks, tzOffset, lastRead>>
    /\ UNCHANGED <<searchVars, keyVars, rlVars>>
    /\ UNCHANGED extVars
    /\ UNCHANGED moreVars

\* get_cached_search(cache_key), lines 71-83
GetCachedSearch(cache_key) ==
    /\ lastRead' =
          [made |-> TRUE, cache_key |-> cache_key,
           result |-> get_cached_search(store, cache_key, utcNow),
           \* for the properties: what the last completed cache_search for
           \* the key wrote, whether the read comes within the hour of that
           \* write, and whether its time + ttl has passed
           written |-> IF cache_key \in DOMAIN lastWrite
                       THEN Some(lastWrite[cache_key].data) ELSE Nothing,
           fresh |-> /\ cache_key \in DOMAIN lastWrite
                     /\ utcNow = lastWrite[cache_key].began,
           expired |-> /\ cache_key \in DOMAIN lastWrite
                       /\ utcNow > lastWrite[cache_key].began
                                     + lastWrite[cache_key].ttl_hours]
    /\ UNCHANGED <<store, nextId, utcNow, ticks, tzOffset, writers, lastWrite>>
    /\ UNCHANGED <<searchVars, keyVars, rlVars>>
    /\ UNCHANGED extVars
    /\ UNCHANGED moreVars

\* an hour passes
TickHour ==
    /\ ticks < MaxTicks
    /\ utcNow' = utcNow + 1
    /\ ticks' = ticks + 1
    /\ UNCHANGED <<store, nextId, tzOffset, writers, lastWrite, lastRead>>
    /\ UNCHANGED <<searchVars, keyVars, rlVars>>
    /\ UNCHANGED extVars
    /\ UNCHANGED moreVars

(***************************************************************************)
(* RateLimiter.wait_if_needed (rate_limiter.py).                           *)
(***************************************************************************)
\* line 51: delay = delay or self.default_delay
EffectiveDelay(delay, default_delay) ==
    IF delay = Nothing \/ delay[1] = 0 THEN default_delay ELSE delay[1]

\* the wait computed from one timestamp kept for all domains
WaitTime_global(last, domain, now, delay) ==
    IF \E d \in DOMAIN last : now - last[d] < delay
    THEN delay - (now - (CHOOSE t \in Range(last) : \A u \in Range(last) : u <= t))
    ELSE 0

\* lines 54-57: the time to sleep, 0 when the call goes straight through
WaitTime(last, domain, now, delay) ==
    IF domain \in DOMAIN last /\ now - last[domain] < delay
    THEN delay - (now - last[domain])
    ELSE 0

\* line 60: self.last_request_time[domain] = time.time()
RecordRequest(last, domain, now) ==
    [d \in DOMAIN last \cup {domain} |-> IF d = domain THEN now ELSE last[d]]

IdleCaller == [pc |-> "idle", domain |-> "", delay |-> Nothing, started |-> 0,
               wake |-> 0]

\* wait_if_needed(domain, delay) up to its await, or to its end when it does
\* not sleep
WaitIfNeededCall(c, domain, delay) ==
    /\ callers[c].pc = "idle"
    /\ Len(rlLog) + Cardinality({v \in DOMAIN callers : callers[v].pc = "sleeping"})
          < MaxCalls
    /\ LET wait == WaitTime(last_request_time, domain, rlClock,
                            EffectiveDelay(delay, config.request_delay))
       IN  IF wait > 0
           THEN /\ callers' = [callers EXCEPT ![c] =
                                 [pc |-> "sleeping", domain |-> domain,
                                  delay |-> delay, started |-> rlClock,
                                  wake |-> rlClock + wait]]
                /\ UNCHANGED <<last_request_time, rlLog>>
           ELSE /\ last_request_time' =
                      RecordRequest(last_request_time, domain, rlClock)
                /\ rlLog' = Append(rlLog, [domain |-> domain, delay |-> delay,
                                           started |-> rlClock,
                                           returned |-> rlClock, slept |-> FALSE])
                /\ UNCHANGED callers
    /\ UNCHANGED rlClock
    /\ UNCHANGED <<searchVars, dbVars, keyVars>>
    /\ UNCHANGED extVars
    /\ UNCHANGED moreVars

\* asyncio.sleep(wait_time) is over: line 60 and the return
WaitIfNeededWake(c) ==
    /\ callers[c].pc = "sleeping"
    /\ rlClock >= callers[c].wake
    /\ last_request_time' =
          RecordRequest(last_request_time, callers[c].domain, rlClock)
    /\ rlLog' = Append(rlLog, [domain |-> callers[c].domain,
                               delay |-> callers[c].delay,
                               started |-> callers[c].started,
                               returned |-> rlClock, slept |-> TRUE])
    /\ callers' = [callers EXCEPT ![c] = IdleCaller]
    /\ UNCHANGED rlClock
    /\ UNCHANGED <<searchVars, dbVars, keyVars>>
    /\ UNCHANGED extVars
    /\ UNCHANGED moreVars

\* time passes
RlTick ==
    /\ rlClock < MaxClock
    /\ rlClock' = rlClock + 1
    /\ UNCHANGED <<last_request_time, callers, rlLog>>
    /\ UNCHANGED <<searchVars, dbVars, keyVars>>
    /\ UNCHANGED extVars
    /\ UNCHANGED moreVars

(***************************************************************************)
(* get_cache_key (routes.py) applied to two argument triples.              *)
(***************************************************************************)
ComputeKeys ==
    /\ keyOut = Nothing
    /\ keyArgs # <<>>
    /\ keyOut' = Some(<<get_cache_key(keyArgs[1].query, keyArgs[1].merchant,
                                      keyArgs[1].filters),
                        get_cache_key(keyArgs[2].query, keyArgs[2].merchant,
                                      keyArgs[2].filters)>>)
    /\ UNCHANGED keyArgs
    /\ UNCHANGED <<searchVars, dbVars, rlVars>>
    /\ UNCHANGED extVars
    /\ UNCHANGED moreVars

(***************************************************************************)
(* The states the other components rest in while one is exercised.         *)
(***************************************************************************)

DbIdle ==
    /\ nextId = 1
    /\ utcNow = 34
    /\ ticks = 0
    /\ tzOffset = 0
    /\ store = {}
    /\ writers = [w \in 1..NumWriters |-> IdleWriter]
    /\ lastWrite = <<>>
    /\ lastRead = NoRead

KeyIdle ==
    /\ keyArgs = <<>>
    /\ keyOut = Nothing

RlIdle ==
    /\ rlClock = 0
    /\ last_request_time = <<>>
    /\ callers = <<>>
    /\ rlLog = <<>>

\* lookup: get_cached_search raised; write: per task whose cache_search
\* raised, the listings its scraper had returned
NoCacheFaults == [lookup |-> FALSE, write |-> <<>>]

HttpIdle ==
    /\ prevalidated = FALSE
    /\ cacheFaults = NoCacheFaults

ScraperIdle ==
    /\ scrapers = <<>>
    /\ fetchLog = <<>>

ParseIdle ==
    /\ parseIn = <<>>
    /\ parseOut = Nothing

AvailIdle ==
    /\ availElement = Nothing
    /\ availResult = Nothing

UrlIdle ==
    /\ urlIn = <<>>
    /\ urlOut = Nothing

TraceIdle ==
    /\ lookups = <<>>
    /\ completed = <<>>

SweepIdle == lastSweep = Nothing

StallIdle == stalled = {}

SessionIdle == sessions = <<>>

CallIdle ==
    /\ callIn = <<>>
    /\ callOut = Nothing

ProxyIdle == proxy = <<>>

LateIdle == SessionIdle /\ CallIdle /\ ProxyIdle

MoreIdle == UrlIdle /\ TraceIdle /\ SweepIdle /\ StallIdle /\ LateIdle

ExtIdle == HttpIdle /\ ScraperIdle /\ ParseIdle /\ AvailIdle /\ MoreIdle

(***************************************************************************)
(* Spec: one search request, from its validation to its response.          *)
(***************************************************************************)
DefaultConfig ==
    [cache_enabled |-> TRUE, cache_ttl_hours |-> 1, tax_enabled |-> TRUE,
     tax_default_rate |-> 0, shipping_enabled |-> TRUE,
     merchants |-> <<[name |-> "newegg", enabled |-> TRUE],
                     [name |-> "amazon", enabled |-> TRUE]>>,
     geo_lookup |-> Some([state |-> "CA"]), request_delay |-> 1]

Requests ==
    [query : {<<"t", "v">>},
     merchants : {Nothing},
     max_results : 1..MaxResultsCap,
     min_price : {Nothing, Some(25000)},
     max_price : {Nothing, Some(30000)},
     brand : {Nothing, Some(<<"a", "B">>)},
     include_out_of_stock : BOOLEAN]

Merchants == {"amazon", "newegg"}

\* the cache rows a set of earlier searches left: per merchant none, or one
\* live row under the request's key
RowsFor(req, cachedPage, utc, tz) ==
    {CacheRow(IF m = "amazon" THEN 1 ELSE 2, RequestKey(req, m), req.query, m,
              cachedPage[m][1], ExpiresAt(utc, tz, 1)) :
        m \in {x \in Merchants : cachedPage[x] # Nothing}}

Init ==
    /\ request \in Requests
    /\ config = DefaultConfig
    /\ utcNow = 34
    /\ tzOffset = 0
    /\ \E cachedPage \in [Merchants -> {Nothing} \cup
                             {Some(pg) : pg \in UNION {Pages(m) : m \in Merchants}}] :
         /\ \A m \in Merchants :
               cachedPage[m] # Nothing =>
                  cachedPage[m][1] \in Pages(m) \ {<<>>}
         /\ store = RowsFor(request, cachedPage, utcNow, tzOffset)
    /\ nextId = 3
    /\ ticks = 0
    /\ writers = [w \in 1..NumWriters |-> IdleWriter]
    /\ lastWrite = <<>>
    /\ lastRead = NoRead
    /\ phase = "start"
    /\ merchants_to_search = <<>>
    /\ cached_results = <<>>
    /\ all_products = <<>>
    /\ tasks = <<>>
    /\ results = <<>>
    /\ unitRaised = <<>>
    /\ response = NoResponse
    /\ KeyIdle
    /\ RlIdle
    /\ ExtIdle

Next ==
    \/ StartSearch
    \/ \E i \in 1..Cardinality(Merchants) : RunUnit(i)
    \/ Respond

Spec == Init /\ [][Next]_vars

(***************************************************************************)
(* Properties of the search response.                                      *)
(***************************************************************************)
Done == phase = "done"

\* the same listing, whatever enrichment did to its price fields
SameListing(p, x) ==
    /\ p.title = x.title
    /\ p.merchant = x.merchant
    /\ p.base_price = x.base_price
    /\ p.availability = x.availability

\* the filter as the request states it: inclusive bounds on the base price,
\* brand a case-insensitive substring of the title
InBounds(x) ==
    /\ request.min_price = Nothing \/ request.min_price[1] <= x.base_price
    /\ request.max_price = Nothing \/ x.base_price <= request.max_price[1]
    /\ \/ request.brand = Nothing
       \/ \E off \in 0..Len(x.title) :
             /\ off + Len(request.brand[1]) <= Len(x.title)
             /\ \A k \in 1..Len(request.brand[1]) :
                   LowerChar(request.brand[1][k]) = LowerChar(x.title[off + k])

\* a merged listing the response owes a place, room permitting
Eligible(x) ==
    /\ InBounds(x)
    /\ request.include_out_of_stock \/ x.availability # "out_of_stock"

EligibleCount ==
    Cardinality({i \in DOMAIN all_products : Eligible(all_products[i])})

\* C1: when one merchant's unit raises, at whatever stage, the request
\* still ends in a success response and every listing another unit returned
\* is merged: it is in all_products and, when the filters and the cap leave
\* it room, in the response.
C1_PartialFailure ==
    Done =>
      /\ response.status = "success"
      /\ \A i \in DOMAIN tasks : \A j \in DOMAIN tasks :
           (unitRaised[i] \in Stages /\ j # i) =>
              \A k \in DOMAIN results[j].value :
                 LET x == results[j].value[k]
                 IN  /\ \E n \in DOMAIN all_products : all_products[n] = x
                     /\ (Eligible(x) /\ Len(all_products) <= request.max_results)
                           => \E n \in DOMAIN response.products :
                                 SameListing(response.products[n], x)

\* C1 witness: a unit raised, another returned listings, and they are served
C1_Witness ==
    /\ Done
    /\ \E i \in DOMAIN tasks : \E j \in DOMAIN tasks :
          /\ unitRaised[i] \in Stages
          /\ j # i
          /\ unitRaised[j] = "none"
          /\ Len(results[j].value) = 2
          /\ Len(response.products) = 2

\* C2: in the response every in_stock or limited listing precedes every
\* out_of_stock one, each of the two groups is in ascending total_price
\* order, no in_stock or limited listing is left out while there is room,
\* and without include_out_of_stock no out_of_stock listing appears.
C2_SortPartition ==
    Done =>
      LET P == response.products
      IN  /\ \A i \in DOMAIN P : \A j \in DOMAIN P :
                i < j =>
                  /\ P[i].availability = "out_of_stock"
                        => P[j].availability = "out_of_stock"
                  /\ (P[i].availability = "out_of_stock")
                        = (P[j].availability = "out_of_stock")
                        => P[i].total_price <= P[j].total_price
          /\ ~request.include_out_of_stock
                => \A i \in DOMAIN P : P[i].availability # "out_of_stock"
          /\ (\E i \in DOMAIN P : P[i].availability = "out_of_stock")
                => Cardinality({i \in DOMAIN P : P[i].availability # "out_of_stock"})
                   = Cardinality({i \in DOMAIN all_products :
                                     /\ InBounds(all_products[i])
                                     /\ all_products[i].availability # "out_of_stock"})

\* C2 witness: two stocked listings the sort had to swap, then two
\* out_of_stock listings the sort had to swap, the first of them cheaper
\* than the stocked listing before it
C2_Witness ==
    /\ Done
    /\ request.include_out_of_stock
    /\ Len(response.products) = 4
    /\ all_products[1].merchant = "newegg"
    /\ response.products[1].availability = "limited"
    /\ response.products[1].merchant = "amazon"
    /\ response.products[2].availability = "in_stock"
    /\ response.products[1].base_price > response.products[2].base_price
    /\ response.products[1].total_price < response.products[2].total_price
    /\ response.products[3].availability = "out_of_stock"
    /\ response.products[3].merchant = "amazon"
    /\ response.products[3].total_price < response.products[2].total_price
    /\ response.products[4].total_price > response.products[3].total_price

\* C3: a merged listing passes the filter exactly when its base price lies
\* within the inclusive bounds the request gives and the brand, if given, is
\* a case-insensitive substring of its title: every listing of the response
\* satisfies this on its base price, and as many eligible listings as the cap
\* allows are in the response.
C3_Filter ==
    Done =>
      /\ \A i \in DOMAIN response.products : InBounds(response.products[i])
      /\ Len(response.products) = Min(request.max_results, EligibleCount)

\* C3 witness: all three filters given; a listing on the lower bound is
\* served although its enriched total exceeds the upper bound, a listing on
\* the upper bound is rejected for its title, and listings below and above
\* the bounds are rejected
C3_Witness ==
    /\ Done
    /\ request.min_price # Nothing
    /\ request.max_price # Nothing
    /\ request.brand # Nothing
    /\ \E i \in DOMAIN response.products :
          /\ response.products[i].base_price = request.min_price[1]
          /\ response.products[i].total_price > request.max_price[1]
    /\ \E i \in DOMAIN all_products :
          /\ all_products[i].base_price = request.max_price[1]
          /\ ~InBounds(all_products[i])
    /\ \E i \in DOMAIN all_products :
          all_products[i].base_price < request.min_price[1]
    /\ \E i \in DOMAIN all_products :
          all_products[i].base_price > request.max_price[1]

\* C4: the response holds exactly the first max_results listings of the
\* filtered, sorted and partitioned sequence, all of them when there are
\* fewer; so len(products) <= max_results and total_results == len(products).
C4_Truncate ==
    Done =>
      LET full == StockPartition(
                     SortProducts(EnrichAll(all_products, request,
                                            response.location, config)),
                     request.include_out_of_stock)
      IN  /\ Len(response.products) <= request.max_results
          /\ response.total_results = Len(response.products)
          /\ Len(response.products) = Min(request.max_results, EligibleCount)
          /\ Len(full) = EligibleCount
          /\ \A i \in DOMAIN response.products : response.products[i] = full[i]

\* C4 witness: more eligible listings than the cap, stocked and not
C4_Witness ==
    /\ Done
    /\ request.include_out_of_stock
    /\ EligibleCount > request.max_results
    /\ Len(response.products) = request.max_results
    /\ request.max_results >= 2
    /\ \E i \in DOMAIN all_products :
          Eligible(all_products[i]) /\ all_products[i].availability = "out_of_stock"
    /\ \A i \in DOMAIN response.products :
          response.products[i].availability # "out_of_stock"

\* total is base + shipping + tax rounded to two decimals: a whole number of
\* cents, nearest to the sum, the even one of two equally near
IsRounded2(total, sum) ==
    /\ total % 10 = 0
    /\ total - sum <= 5
    /\ sum - total <= 5
    /\ (total - sum = 5 \/ sum - total = 5) => (total \div 10) % 2 = 0

\* C5: every listing of a response has
\* total_price == round(base_price + shipping_cost + tax, 2), whether it
\* was scraped for this request or came from the cache.
C5_TotalPrice ==
    Done =>
      \A i \in DOMAIN response.products :
         LET p == response.products[i]
         IN  IsRounded2(p.total_price, p.base_price + p.shipping_cost + p.tax)

\* C5 witness: a response with a listing from the cache and a scraped one,
\* one of them with a shipping fee and a sum that is no whole number of cents
C5_Witness ==
    /\ Done
    /\ \E i \in DOMAIN response.products :
          /\ response.products[i].merchant \in DOMAIN cached_results
          /\ response.products[i].shipping_cost > 0
          /\ (response.products[i].base_price
                + response.products[i].shipping_cost) % 10 # 0
    /\ \E i \in DOMAIN response.products :
          /\ response.products[i].merchant \in Range(tasks)
          /\ response.products[i].shipping_cost > 0

(***************************************************************************)
(* SpecCache: the search cache under writes, reads and passing hours, in   *)
(* any time zone and from any hour of the day.                             *)
(***************************************************************************)
SearchIdle ==
    /\ request = CHOOSE r \in Requests : TRUE
    /\ config = DefaultConfig
    /\ phase = "idle"
    /\ merchants_to_search = <<>>
    /\ cached_results = <<>>
    /\ all_products = <<>>
    /\ tasks = <<>>
    /\ results = <<>>
    /\ unitRaised = <<>>
    /\ response = NoResponse

\* the keys of one query for two merchants
CacheKeys ==
    {get_cache_key(<<"t", "v">>, <<m>>,
                   [max_results |-> 20, min_price |-> Nothing,
                    max_price |-> Nothing]) : m \in Merchants}

\* the listing sets written
CacheData ==
    {<<>>,
     <<Scraped("amazon", <<"b", "A">>, 30000, "limited"),
       Scraped("amazon", <<"A", "b">>, 25000, "out_of_stock")>>}

\* hours east of UTC: Los Angeles, UTC, Tokyo
TimeZones == {-8, 0, 9}

\* hours of the day, UTC, at which the model starts (day 1)
StartHours == {0, 3, 10, 15, 20, 23}

InitCache ==
    /\ SearchIdle
    /\ KeyIdle
    /\ RlIdle
    /\ store = {}
    /\ nextId = 1
    /\ utcNow \in {24 + h : h \in StartHours}
    /\ ticks = 0
    /\ tzOffset \in TimeZones
    /\ writers = [w \in 1..NumWriters |-> IdleWriter]
    /\ lastWrite = <<>>
    /\ lastRead = NoRead
    /\ ExtIdle

\* one caller at a time writes and reads while the hours pass
NextCache ==
    \/ \E k \in CacheKeys, d \in CacheData, ttl \in 1..2 :
          CacheSearchBegin(1, k, d, ttl)
    \/ CacheSearchCommit(1)
    \/ \E k \in CacheKeys : GetCachedSearch(k)
    \/ TickHour

SpecCache == InitCache /\ [][NextCache]_vars

(***************************************************************************)
(* SpecCacheWrites: concurrent cache_search calls, each computing its      *)
(* expiry before it gets to insert.                                        *)
(***************************************************************************)
\* what writer w stores: the writers differ in their listing sets
DataOf(w) ==
    IF w % 2 = 1 THEN <<Scraped("amazon", <<"b", "A">>, 30000, "limited")>>
    ELSE [i \in 1..(w \div 2) |->
             Scraped("amazon", <<"A", "b">>, 25000, "out_of_stock")]

InitCacheWrites ==
    /\ SearchIdle
    /\ KeyIdle
    /\ RlIdle
    /\ store = {}
    /\ nextId = 1
    /\ utcNow = 34
    /\ ticks = 0
    /\ tzOffset \in TimeZones
    /\ writers = [w \in 1..NumWriters |-> IdleWriter]
    /\ lastWrite = <<>>
    /\ lastRead = NoRead
    /\ ExtIdle

NextCacheWrites ==
    \/ \E w \in 1..NumWriters, k \in CacheKeys :
          CacheSearchBegin(w, k, DataOf(w), config.cache_ttl_hours)
    \/ \E w \in 1..NumWriters : CacheSearchCommit(w)
    \/ TickHour

SpecCacheWrites == InitCacheWrites /\ [][NextCacheWrites]_vars

(***************************************************************************)
(* SpecKey: get_cache_key on pairs of argument triples.                    *)
(***************************************************************************)
\* the texts given as query and as merchant
KeyTexts == UNION {[1..n -> {"a", ":"}] : n \in 1..MaxKeyLen}

KeyInputs ==
    [query : KeyTexts, merchant : KeyTexts,
     filters : {[max_results |-> 20, min_price |-> Nothing, max_price |-> Nothing],
                [max_results |-> 20, min_price |-> Some(25000),
                 max_price |-> Nothing]}]

InitKey ==
    /\ SearchIdle
    /\ DbIdle
    /\ RlIdle
    /\ keyArgs \in KeyInputs \X KeyInputs
    /\ keyOut = Nothing
    /\ ExtIdle

NextKey == ComputeKeys

SpecKey == InitKey /\ [][NextKey]_vars

(***************************************************************************)
(* SpecRL: one RateLimiter, its callers coming one after the other.        *)
(***************************************************************************)
Domains == {"https://www.amazon.com", "https://www.newegg.com"}

Delays == {Nothing, Some(0), Some(1), Some(2)}

InitRL ==
    /\ SearchIdle
    /\ DbIdle
    /\ KeyIdle
    /\ rlClock = 0
    /\ last_request_time = <<>>
    /\ callers = [c \in 1..NumCallers |-> IdleCaller]
    /\ rlLog = <<>>
    /\ ExtIdle

NextRL ==
    \/ \E c \in 1..NumCallers, d \in Domains, delay \in Delays :
          /\ \A o \in 1..NumCallers : callers[o].pc = "idle"
          /\ WaitIfNeededCall(c, d, delay)
    \/ \E c \in 1..NumCallers : WaitIfNeededWake(c)
    \/ RlTick

SpecRL == InitRL /\ [][NextRL]_vars

(***************************************************************************)
(* Properties of the search cache (SpecCache, SpecCacheWrites).            *)
(***************************************************************************)
\* C6: a get_cached_search made right after cache_search(key, q, m, data,
\* ttl) with ttl >= 1, within the hour the write began, returns the data
\* that was written, whatever the zone of the host and the time of day.
C6_RoundTrip ==
    (lastRead.made /\ lastRead.fresh) => lastRead.result = lastRead.written

\* C7: a get_cached_search made after the time of the last write plus its
\* ttl has passed returns no entry.
C7_ExpiredNotServed ==
    (lastRead.made /\ lastRead.expired) => lastRead.result = Nothing

RowsOf(cache_key) == {r \in store : r.cache_key = cache_key}

\* C8: whatever the interleaving of the writers, search_cache holds at most
\* one row per cache_key, none for a key never written, and the row of a
\* key is the one of the last completed cache_search for it: its data, and
\* the expiry that write computed from its own time and ttl.
C8_OneRowPerKey ==
    \A k \in CacheKeys :
        /\ Cardinality(RowsOf(k)) <= 1
        /\ (RowsOf(k) # {}) <=> (k \in DOMAIN lastWrite)
        /\ \A r \in RowsOf(k) :
              /\ r.id = lastWrite[k].id
              /\ JsonLoads(r.data) = lastWrite[k].data
              /\ r.expires_at = IsoFormat(lastWrite[k].began + tzOffset
                                            + lastWrite[k].ttl_hours)

\* two writes to one key have completed, the second one begun in an earlier
\* hour than it completed
C8_Witness ==
    /\ nextId = 3
    /\ Cardinality(store) = 1
    /\ \E k \in DOMAIN lastWrite :
          /\ lastWrite[k].id = 2
          /\ lastWrite[k].began < utcNow

(***************************************************************************)
(* Properties of get_cache_key (SpecKey).                                  *)
(***************************************************************************)
\* C9: equal arguments give equal keys, and two argument triples that
\* differ in query or in merchant give different keys.
C9_KeyInjective ==
    keyOut # Nothing =>
        /\ (keyArgs[1] = keyArgs[2] => keyOut[1][1] = keyOut[1][2])
        /\ (\/ keyArgs[1].query # keyArgs[2].query
            \/ keyArgs[1].merchant # keyArgs[2].merchant)
              => keyOut[1][1] # keyOut[1][2]

(***************************************************************************)
(* Properties of the rate limiter (SpecRL).                                *)
(***************************************************************************)
\* the delay a call asks for: the one passed, the default when none is
DelayAsked(delay) == IF delay = Nothing THEN config.request_delay ELSE delay[1]

EarlierSameDomain(j) == {i \in 1..(j - 1) : rlLog[i].domain = rlLog[j].domain}

LastEarlier(j) ==
    CHOOSE i \in EarlierSameDomain(j) : \A o \in EarlierSameDomain(j) : o <= i

\* C10: with calls coming one after the other, a call for a domain returns
\* no earlier than its delay after the timestamp the previous call for that
\* domain recorded, and sleeps only when that domain's own timestamp is less
\* than the delay old: a call for a domain without an earlier request goes
\* straight through, whatever was recorded for other domains.
C10_SequentialDelay ==
    /\ \A j \in 1..Len(rlLog) :
          IF EarlierSameDomain(j) = {}
          THEN ~rlLog[j].slept
          ELSE /\ rlLog[j].returned >=
                     rlLog[LastEarlier(j)].returned + DelayAsked(rlLog[j].delay)
               /\ rlLog[j].slept =>
                     rlLog[j].started < rlLog[LastEarlier(j)].returned
                        + EffectiveDelay(rlLog[j].delay, config.request_delay)
    /\ \A c \in DOMAIN callers :
          callers[c].pc = "sleeping" =>
              \E i \in 1..Len(rlLog) : rlLog[i].domain = callers[c].domain

\* a call for d, then at once one for another domain that does not sleep,
\* then a second call for d that has to sleep
C10_Witness ==
    /\ Len(rlLog) = 3
    /\ rlLog[1].domain = rlLog[3].domain
    /\ rlLog[2].domain # rlLog[1].domain
    /\ rlLog[2].started = rlLog[1].returned
    /\ ~rlLog[2].slept
    /\ rlLog[3].slept

(***************************************************************************)
(* SpecRLConc: one RateLimiter, its callers running concurrently: a call   *)
(* may begin while another sleeps in asyncio.sleep.                        *)
(***************************************************************************)
NextRLConc ==
    \/ \E c \in 1..NumCallers, d \in Domains, delay \in Delays :
          WaitIfNeededCall(c, d, delay)
    \/ \E c \in 1..NumCallers : WaitIfNeededWake(c)
    \/ RlTick

SpecRLConc == InitRL /\ [][NextRLConc]_vars

\* C11: whatever the interleaving of concurrent wait_if_needed calls on one
\* RateLimiter, two calls for the same domain never return less than the
\* delay apart: the later one returns at least its delay after the earlier.
C11_AtomicUpdate ==
    \A i \in 1..Len(rlLog) : \A j \in 1..Len(rlLog) :
        (i < j /\ rlLog[i].domain = rlLog[j].domain) =>
            rlLog[j].returned >= rlLog[i].returned + DelayAsked(rlLog[j].delay)

(***************************************************************************)
(* RateLimiter.check_robots_txt (rate_limiter.py) and                      *)
(* urllib.robotparser.RobotFileParser as it uses it.                       *)
(***************************************************************************)
\* what client.get(robots_url) does: raises, answers another status than
\* 200, or answers 200
RobotsFetches == {"raised", "non200", "ok"}

\* what rp.read(), reached after a 200, does with its own urlopen: raises,
\* gets 401/403, gets another 4xx, or reads rules that allow or disallow
\* the URL for the user agent
RobotsReads == {"raised", "http401", "http404", "allows", "disallows"}

\* lines 27-41: the RobotFileParser that gets cached. Only rp.read() sets
\* allow_all, disallow_all or last_checked; after a failed or non-200 fetch
\* the parser is as RobotFileParser() made it
ParserAfterFetch(fetch, read) ==
    IF fetch # "ok" THEN "unread"
    ELSE CASE read = "raised" -> "unread"
           [] read = "http401" -> "disallow_all"
           [] read = "http404" -> "allow_all"
           [] read = "allows" -> "rules_allow"
           [] read = "disallows" -> "rules_disallow"

\* RobotFileParser.can_fetch: disallow_all, then allow_all, then False
\* while nothing was read (last_checked = 0), then the rules
can_fetch(parser) ==
    CASE parser = "disallow_all" -> FALSE
      [] parser = "allow_all" -> TRUE
      [] parser = "unread" -> FALSE
      [] parser = "rules_allow" -> TRUE
      [] parser = "rules_disallow" -> FALSE

\* lines 25-44: robots_parsers after the call
check_robots_txt_cache(robots_parsers, domain, fetch, read) ==
    IF domain \in DOMAIN robots_parsers THEN robots_parsers
    ELSE [d \in DOMAIN robots_parsers \cup {domain} |->
            IF d = domain
            THEN [state |-> ParserAfterFetch(fetch, read), fetched |-> fetch]
            ELSE robots_parsers[d]]

\* lines 46-47: the answer of the call
check_robots_txt(robots_parsers, domain, fetch, read) ==
    can_fetch(check_robots_txt_cache(robots_parsers, domain, fetch, read)[domain].state)

(***************************************************************************)
(* Scraper instances: BaseScraper.search and DuckDuckGoScraper.search.     *)
(***************************************************************************)
ScraperMerchants == {"amazon", "newegg", "duckduckgo"}

\* _get_domain(get_search_url(query)); the DuckDuckGo variant has no search
\* URL, its requests go to the search engine
SearchDomain(merchant) ==
    CASE merchant = "amazon" -> "https://www.amazon.com"
      [] merchant = "newegg" -> "https://www.newegg.com"
      [] OTHER -> "https://duckduckgo.com"

\* BaseScraper.__init__: every instance makes its own RateLimiter
NewScraper(merchant) ==
    [merchant |-> merchant, pc |-> "idle", searches |-> 0,
     last_request_time |-> <<>>, robots_parsers |-> <<>>,
     wake |-> 0,
     events |-> <<>>,   \* the steps of the search under way or last made
     robots |-> <<>>,   \* the check_robots_txt calls made and their answers

     outcome |-> "none", value |-> <<>>]

\* the search calls made so far on the first n instances, those under way
\* included
RECURSIVE SearchesBegun(_)
SearchesBegun(n) ==
    IF n = 0 THEN 0
    ELSE scrapers[n].searches + (IF scrapers[n].pc = "idle" THEN 0 ELSE 1)
         + SearchesBegun(n - 1)

\* what can go wrong after the pacing: the fetch raises, raise_for_status
\* raises, _parse_results raises
FetchFailures == {"fetch", "status", "parse"}

\* search, lines 50-56: the search URL, its domain, the robots check
SearchResolve(i, urlOK, fetch, read) ==
    /\ scrapers[i].pc = "idle"
    /\ scrapers[i].merchant # "duckduckgo"
    /\ SearchesBegun(NumScrapers) < MaxSearches
    /\ LET me == scrapers[i]
           d == SearchDomain(me.merchant)
           parsers == check_robots_txt_cache(me.robots_parsers, d, fetch, read)
           allowed == check_robots_txt(me.robots_parsers, d, fetch, read)
           asked == Append(me.robots,
                           [failed |-> parsers[d].fetched \in {"raised", "non200"},
                            cached |-> d \in DOMAIN me.robots_parsers,
                            answer |-> allowed])
       IN  scrapers' = [scrapers EXCEPT ![i] =
              IF ~urlOK
              THEN [me EXCEPT !.outcome = "raised", !.value = <<>>,
                              !.searches = @ + 1,
                              !.events = <<"raised">>]
              ELSE IF ~allowed
              THEN [me EXCEPT !.robots_parsers = parsers, !.robots = asked,
                              !.outcome = "returned", !.value = <<>>,
                              !.searches = @ + 1,
                              !.events = <<"robots_denied">>]
              ELSE [me EXCEPT !.robots_parsers = parsers, !.robots = asked,
                              !.outcome = "none", !.pc = "pacing",
                              !.events = <<"robots_allowed">>]]
    /\ UNCHANGED <<fetchLog, rlVars>>
    /\ UNCHANGED <<searchVars, dbVars, keyVars, httpVars, parseVars, availVars>>
    /\ UNCHANGED moreVars

\* search, line 58: wait_if_needed(domain) on the instance's own limiter,
\* up to its await or to its end
SearchPace(i) ==
    /\ scrapers[i].pc = "pacing"
    /\ LET me == scrapers[i]
           d == SearchDomain(me.merchant)
           wait == WaitTime(me.last_request_time, d, rlClock,
                            EffectiveDelay(Nothing, config.request_delay))
       IN  scrapers' = [scrapers EXCEPT ![i] =
              IF wait > 0
              THEN [me EXCEPT !.pc = "sleeping", !.wake = rlClock + wait]
              ELSE [me EXCEPT !.pc = "fetching",
                              !.last_request_time = RecordRequest(@, d, rlClock),
                              !.events = Append(@, "paced")]]
    /\ UNCHANGED <<fetchLog, rlVars>>
    /\ UNCHANGED <<searchVars, dbVars, keyVars, httpVars, parseVars, availVars>>
    /\ UNCHANGED moreVars

\* wait_if_needed after its sleep: line 60
SearchWake(i) ==
    /\ scrapers[i].pc = "sleeping"
    /\ rlClock >= scrapers[i].wake
    /\ scrapers' = [scrapers EXCEPT ![i] =
          [@ EXCEPT !.pc = "fetching",
                    !.last_request_time =
                        RecordRequest(@, SearchDomain(scrapers[i].merchant), rlClock),
                    !.events = Append(@, "paced")]]
    /\ UNCHANGED <<fetchLog, rlVars>>
    /\ UNCHANGED <<searchVars, dbVars, keyVars, httpVars, parseVars, availVars>>
    /\ UNCHANGED moreVars

\* search, lines 60-67: the page is requested and parsed inside the try
SearchFetch(i, failure, page) ==
    /\ scrapers[i].pc = "fetching"
    /\ page \in Pages(scrapers[i].merchant)
    /\ fetchLog' = Append(fetchLog,
                          [scraper |-> i,
                           domain |-> SearchDomain(scrapers[i].merchant),
                           at |-> rlClock, paced |-> TRUE])
    /\ scrapers' = [scrapers EXCEPT ![i] =
          [@ EXCEPT !.pc = "idle", !.outcome = "returned",
                    !.value = ScraperSearch(failure, page, request.max_results),
                    !.searches = @ + 1,
                    !.events = Append(@, "fetch")]]
    /\ UNCHANGED rlVars
    /\ UNCHANGED <<searchVars, dbVars, keyVars, httpVars, parseVars, availVars>>
    /\ UNCHANGED moreVars

\* DuckDuckGoScraper.search, lines 20-74: ddgs.text is called at once; what
\* it or the loop raises is caught
DdgSearch(i, raised) ==
    /\ scrapers[i].pc = "idle"
    /\ scrapers[i].merchant = "duckduckgo"
    /\ SearchesBegun(NumScrapers) < MaxSearches
    /\ fetchLog' = Append(fetchLog,
                          [scraper |-> i,
                           domain |-> SearchDomain(scrapers[i].merchant),
                           at |-> rlClock, paced |-> FALSE])
    /\ scrapers' = [scrapers EXCEPT ![i] =
          [@ EXCEPT !.outcome = "returned", !.value = <<>>,
                    !.searches = @ + 1,
                    !.events = IF raised THEN <<"fetch_caught">>
                                         ELSE <<"fetch">>]]
    /\ UNCHANGED rlVars
    /\ UNCHANGED <<searchVars, dbVars, keyVars, httpVars, parseVars, availVars>>
    /\ UNCHANGED moreVars

\* time passes
ScraperTick ==
    /\ rlClock < MaxClock
    /\ rlClock' = rlClock + 1
    /\ UNCHANGED <<last_request_time, callers, rlLog>>
    /\ UNCHANGED <<searchVars, dbVars, keyVars, extVars>>
    /\ UNCHANGED moreVars

(***************************************************************************)
(* SpecScraper: scraper instances, as search_merchant makes one per call,  *)
(* searching concurrently.                                                 *)
(***************************************************************************)
\* the result pages served to the scraper instances
ScraperPages == {pg \in UNION {Pages(m) : m \in Merchants} : Len(pg) <= 1}

InitScraper ==
    /\ SearchIdle
    /\ DbIdle
    /\ KeyIdle
    /\ RlIdle
    /\ MoreIdle
    /\ HttpIdle
    /\ ParseIdle
    /\ AvailIdle
    /\ scrapers \in [1..NumScrapers -> {NewScraper(m) : m \in ScraperMerchants}]
    /\ fetchLog = <<>>

NextScraper ==
    \/ \E i \in 1..NumScrapers, urlOK \in BOOLEAN,
          fetch \in RobotsFetches, read \in RobotsReads :
          SearchResolve(i, urlOK, fetch, read)
    \/ \E i \in 1..NumScrapers : SearchPace(i)
    \/ \E i \in 1..NumScrapers : SearchWake(i)
    \/ \E i \in 1..NumScrapers, failure \in FetchFailures \cup {"none"},
          page \in ScraperPages :
          SearchFetch(i, failure, page)
    \/ \E i \in 1..NumScrapers, raised \in BOOLEAN : DdgSearch(i, raised)
    \/ ScraperTick

SpecScraper == InitScraper /\ [][NextScraper]_vars

\* C12: the pacing state is shared by the scraper instances: of two page
\* fetches that BaseScraper.search sent to one domain after its pacing, by
\* whichever instances, the later is sent at least the configured request
\* delay after the earlier.
C12_SharedPacing ==
    \A a \in DOMAIN fetchLog : \A b \in DOMAIN fetchLog :
        (/\ a < b
         /\ fetchLog[a].domain = fetchLog[b].domain
         /\ fetchLog[a].paced /\ fetchLog[b].paced) =>
            fetchLog[b].at >= fetchLog[a].at + config.request_delay

\* C13: check_robots_txt fails open: for a domain whose robots.txt fetch
\* raised or answered another status than 200, every call, the first and
\* those served from the cache, answers true.
C13_RobotsFailOpen ==
    \A i \in DOMAIN scrapers : \A k \in DOMAIN scrapers[i].robots :
        scrapers[i].robots[k].failed => scrapers[i].robots[k].answer

\* C14: every scraper variant sends its search request only after
\* check_robots_txt answered allowed and wait_if_needed completed, in that
\* order, and after a disallow it neither paces nor sends the request.
C14_RobotsThenPace ==
    \A i \in DOMAIN scrapers :
        LET ev == scrapers[i].events
        IN  \A k \in DOMAIN ev :
               /\ ev[k] \in {"fetch", "fetch_caught"} =>
                     /\ k >= 3
                     /\ ev[k - 1] = "paced"
                     /\ ev[k - 2] = "robots_allowed"
               /\ (ev[k] = "robots_denied" /\ k < Len(ev)) =>
                     ev[k + 1] \notin {"paced", "fetch", "fetch_caught"}
               /\ (ev[k] = "robots_denied" /\ k = Len(ev)) =>
                     (scrapers[i].outcome = "returned" /\ scrapers[i].value = <<>>)

\* C15: a scraper's search never raises: whatever fails in it, the caller
\* gets an empty list.
C15_NeverRaises ==
    \A i \in DOMAIN scrapers :
        /\ scrapers[i].outcome # "raised"
        /\ (scrapers[i].events # <<>>
              /\ scrapers[i].events[Len(scrapers[i].events)] = "fetch_caught")
             => (scrapers[i].outcome = "returned" /\ scrapers[i].value = <<>>)

(***************************************************************************)
(* Parsing one result set: _parse_results of the structural scrapers       *)
(* (amazon.py and its five siblings) and the loop of                       *)
(* DuckDuckGoScraper.search.                                               *)
(***************************************************************************)
\* An entry of a result set: its title, the price parse_price finds in it
\* (Nothing when none), whether its text holds a "$", and whether reading
\* it raises (a malformed container, a result that is no dict).
Entries ==
    [title : {<<>>, <<"t">>}, price : {Nothing, Some(0), Some(19990)},
     dollar : BOOLEAN, broken : BOOLEAN]

\* one container, lines 23-71: its own try/except; no title: continue;
\* self._extract_price(price_elem) or 0.0
RECURSIVE ParseContainers(_, _)
ParseContainers(containers, merchant) ==
    IF containers = <<>> THEN <<>>
    ELSE LET c == Head(containers)
             rest == ParseContainers(Tail(containers), merchant)
         IN  IF c.broken THEN rest
             ELSE IF c.title = <<>> THEN rest
             ELSE <<Scraped(merchant, c.title,
                            IF c.price = Nothing THEN 0 ELSE c.price[1],
                            "in_stock")>> \o rest

\* _parse_results: containers = soup.select(...)[:max_results], then the loop
parse_results(containers, max_results, merchant) ==
    ParseContainers(Take(containers, max_results), merchant)

\* DuckDuckGoScraper.search, lines 32-69, inside the one try of lines 23-72:
\* a result without a price and without "$" is dropped; one without a price
\* but with "$" reaches Product(price=None), which raises; what raises ends
\* the loop and the results gathered so far are returned
RECURSIVE DdgLoop(_)
DdgLoop(ddg_results) ==
    IF ddg_results = <<>> THEN <<>>
    ELSE LET r == Head(ddg_results)
             falsy == r.price = Nothing \/ r.price = Some(0)
         IN  IF r.broken THEN <<>>
             ELSE IF falsy /\ ~r.dollar THEN DdgLoop(Tail(ddg_results))
             ELSE IF r.price = Nothing THEN <<>>
             ELSE <<Scraped("duckduckgo", r.title, r.price[1], "in_stock")>>
                  \o DdgLoop(Tail(ddg_results))

\* ddgs.text(search_query, max_results=max_results), then the loop
ddg_search(ddg_results, max_results) == DdgLoop(Take(ddg_results, max_results))

\* one result set is parsed
ParseResults ==
    /\ parseIn # <<>>
    /\ parseOut = Nothing
    /\ parseOut' = Some(IF parseIn.variant = "duckduckgo"
                        THEN ddg_search(parseIn.entries, parseIn.max_results)
                        ELSE parse_results(parseIn.entries, parseIn.max_results,
                                           parseIn.variant))
    /\ UNCHANGED parseIn
    /\ UNCHANGED <<searchVars, dbVars, keyVars, rlVars, httpVars, scraperVars,
                   availVars>>
    /\ UNCHANGED moreVars

(***************************************************************************)
(* SpecParse: one result set, of a structural scraper or of DuckDuckGo.    *)
(***************************************************************************)
InitParse ==
    /\ SearchIdle
    /\ DbIdle
    /\ KeyIdle
    /\ RlIdle
    /\ MoreIdle
    /\ HttpIdle
    /\ ScraperIdle
    /\ AvailIdle
    /\ parseIn \in [variant : {"amazon", "duckduckgo"},
                    entries : SeqsUpTo(Entries, MaxEntries),
                    max_results : 1..MaxEntries]
    /\ parseOut = Nothing

NextParse == ParseResults

SpecParse == InitParse /\ [][NextParse]_vars

\* an entry that parses: for a structural scraper one that reads without
\* raising and has a title; for DuckDuckGo one that reads without raising
\* and has a price from which a Product can be made
ParsesWell(e, variant) ==
    IF variant = "duckduckgo"
    THEN ~e.broken /\ e.price # Nothing /\ (e.price # Some(0) \/ e.dollar)
    ELSE ~e.broken /\ e.title # <<>>

\* the entries the scraper takes from the result set: the first max_results
Considered == Take(parseIn.entries, parseIn.max_results)

\* C16: for every scraper variant, DuckDuckGo included, a failure while
\* parsing or constructing one listing skips only that listing: as many
\* products are returned as entries of the result set parse well, those
\* after a failing entry too.
C16_SkipOnlyFailing ==
    parseOut # Nothing =>
        Len(parseOut[1]) =
            Cardinality({k \in DOMAIN Considered :
                            ParsesWell(Considered[k], parseIn.variant)})

(***************************************************************************)
(* POST /api/search from the arrival of the request: the validation of     *)
(* the body against SearchRequest (models.py), the pre-validation at the   *)
(* head of search_products, and the cache calls that raise.                *)
(***************************************************************************)
\* max_results: int = Field(default=20, ge=1, le=100)
MaxResultsLimit == 100

\* SearchRequest without the upper bound on max_results
ValidRequest_no_upper(req) ==
    /\ Len(req.query) >= 1
    /\ req.max_results >= 1

\* SearchRequest: query with min_length=1, max_results with ge=1, le=100
ValidRequest(req) ==
    /\ Len(req.query) >= 1
    /\ req.max_results >= 1
    /\ req.max_results <= MaxResultsLimit

\* the body is validated before search_products is entered; a body that
\* fails goes to validation_exception_handler (main.py), which answers 422
ReceiveRequest ==
    /\ phase = "received"
    /\ IF ValidRequest(request)
       THEN /\ phase' = "validated"
            /\ UNCHANGED response
       ELSE /\ phase' = "done"
            /\ response' = [NoResponse EXCEPT !.status = "validation_error"]
    /\ UNCHANGED <<request, config, merchants_to_search, cached_results,
                   all_products, tasks, results, unitRaised>>
    /\ UNCHANGED <<dbVars, keyVars, rlVars, extVars>>
    /\ UNCHANGED moreVars

\* search_products, lines 125-133: when validation is enabled,
\* search_validator.validate_query is awaited; its verdict is only logged
\* and what it raises is caught
PreValidate(enabled) ==
    /\ phase = "validated"
    /\ prevalidated' = enabled
    /\ phase' = "start"
    /\ UNCHANGED <<request, config, merchants_to_search, cached_results,
                   all_products, tasks, results, unitRaised, response>>
    /\ UNCHANGED cacheFaults
    /\ UNCHANGED <<dbVars, keyVars, rlVars, scraperVars, parseVars, availVars>>
    /\ UNCHANGED moreVars

\* search_products, lines 146-163, when db.get_cached_search raises: the
\* await on line 161 is in no try, the exception leaves the handler and
\* global_exception_handler (main.py) answers 500
StartSearchLookupRaises ==
    /\ phase = "start"
    /\ config.cache_enabled
    /\ \E m \in Range(ResolveMerchants(request, config)) :
          get_merchant_enabled(m, config)
    /\ merchants_to_search' = ResolveMerchants(request, config)
    /\ \E k \in 1..Len(CacheLookups(ResolveMerchants(request, config), config)) :
          lookups' = Take(CacheLookups(ResolveMerchants(request, config), config), k)
    /\ cacheFaults' = [cacheFaults EXCEPT !.lookup = TRUE]
    /\ response' = [NoResponse EXCEPT !.status = "internal_error"]
    /\ phase' = "done"
    /\ UNCHANGED <<request, config, cached_results, all_products, tasks,
                   results, unitRaised>>
    /\ UNCHANGED prevalidated
    /\ UNCHANGED <<dbVars, keyVars, rlVars, scraperVars, parseVars, availVars>>
    /\ UNCHANGED <<urlVars, completed, stalled, lastSweep, lateVars>>

\* search_merchant when the cache write raises and the exception is let out
\* of the inner try: the outer except returns []
search_merchant_cache_error_propagates(stage, page, req) ==
    [done |-> TRUE, isList |-> TRUE, value |-> <<>>]

\* search_merchant, lines 186-206, when db.cache_search raises: the inner
\* except logs a warning and line 206 returns the products
search_merchant_after_cache_error(stage, page, req) ==
    search_merchant(stage, page, req)

\* lines 181-210: a search_merchant task whose scraper returned and whose
\* cache write raises
RunUnitWriteRaises(i) ==
    /\ phase = "scraping"
    /\ i \in 1..Len(tasks)
    /\ ~results[i].done
    /\ config.cache_enabled
    /\ \E stage \in Stages \cup Returns, page \in Pages(tasks[i]) :
         /\ ~EscapesScraper(stage)
         /\ results' = [results EXCEPT ![i] =
                           search_merchant_after_cache_error(stage, page, request)]
         /\ unitRaised' = [unitRaised EXCEPT ![i] = stage]
         /\ cacheFaults' =
               [cacheFaults EXCEPT !.write =
                   [t \in DOMAIN cacheFaults.write \cup {i} |->
                       IF t = i
                       THEN ScraperSearch(stage, page, request.max_results)
                       ELSE cacheFaults.write[t]]]
    /\ completed' = Append(completed, i)
    /\ UNCHANGED <<request, config, phase, merchants_to_search,
                   cached_results, all_products, tasks, response>>
    /\ UNCHANGED prevalidated
    /\ UNCHANGED <<dbVars, keyVars, rlVars, scraperVars, parseVars, availVars>>
    /\ UNCHANGED <<urlVars, lookups, stalled, lastSweep, lateVars>>

(***************************************************************************)
(* SpecHttp: one POST /api/search, its body valid or not, with a cache     *)
(* whose calls may raise.                                                  *)
(***************************************************************************)
RawRequests ==
    [query : {<<>>, <<"t", "v">>},
     merchants : {Nothing},
     max_results : {0, 1, MaxListings, MaxResultsLimit, MaxResultsLimit + 1},
     min_price : {Nothing},
     max_price : {Nothing},
     brand : {Nothing},
     include_out_of_stock : BOOLEAN]

InitHttp ==
    /\ request \in RawRequests
    /\ config = DefaultConfig
    /\ phase = "received"
    /\ merchants_to_search = <<>>
    /\ cached_results = <<>>
    /\ all_products = <<>>
    /\ tasks = <<>>
    /\ results = <<>>
    /\ unitRaised = <<>>
    /\ response = NoResponse
    /\ DbIdle
    /\ KeyIdle
    /\ RlIdle
    /\ ExtIdle

NextHttp ==
    \/ ReceiveRequest
    \/ \E enabled \in BOOLEAN : PreValidate(enabled)
    \/ StartSearch
    \/ StartSearchLookupRaises
    \/ \E i \in 1..Cardinality(Merchants) : RunUnit(i)
    \/ \E i \in 1..Cardinality(Merchants) : RunUnitWriteRaises(i)
    \/ Respond

SpecHttp == InitHttp /\ [][NextHttp]_vars

\* C17: a request with an empty query or with max_results outside 1..100
\* is answered with a validation error, and nothing is done for it: no
\* pre-validation call, no cache lookup, no task, no cache write.
C17_RejectedEarly ==
    (\/ request.query = <<>>
     \/ request.max_results \notin 1..MaxResultsLimit) =>
        /\ phase \in {"received", "done"}
        /\ ~prevalidated
        /\ cacheFaults = NoCacheFaults
        /\ merchants_to_search = <<>> /\ cached_results = <<>>
        /\ tasks = <<>> /\ results = <<>>
        /\ store = {} /\ nextId = 1
        /\ Done => (response.status = "validation_error"
                       /\ response.products = <<>>)

\* a request with a query and max_results = 101 has been rejected
C17_Witness ==
    /\ Done
    /\ request.query # <<>>
    /\ request.max_results = MaxResultsLimit + 1
    /\ response.status = "validation_error"

\* C18: when get_cached_search raises in the lookup phase, the lookup counts
\* as a miss: the merchants are scraped live and the request ends in a
\* success response.
C18_LookupFailureIsMiss ==
    (cacheFaults.lookup /\ Done) =>
        (response.status = "success" /\ tasks # <<>>)

\* C19: when the cache write of a unit raises, the unit still returns the
\* listings its scraper returned, they are merged into all_products, and the
\* request ends in a success response that serves them, room permitting.
C19_WriteFailureSwallowed ==
    \A i \in DOMAIN cacheFaults.write :
        /\ results[i].done /\ results[i].isList
        /\ results[i].value = cacheFaults.write[i]
        /\ Done =>
              /\ response.status = "success"
              /\ \A k \in DOMAIN cacheFaults.write[i] :
                    LET x == cacheFaults.write[i][k]
                    IN  /\ \E n \in DOMAIN all_products : all_products[n] = x
                        /\ (Eligible(x) /\ Len(all_products) <= request.max_results)
                              => \E n \in DOMAIN response.products :
                                    SameListing(response.products[n], x)

\* the cache write of a unit that scraped listings raised, nothing was
\* stored, and the response serves a listing of that unit
C19_Witness ==
    /\ Done
    /\ store = {}
    /\ \E i \in DOMAIN cacheFaults.write :
          /\ cacheFaults.write[i] # <<>>
          /\ \E n \in DOMAIN response.products :
                SameListing(response.products[n], cacheFaults.write[i][1])

(***************************************************************************)
(* BaseScraper._determine_availability (base.py).                          *)
(***************************************************************************)
OutOfStockWords ==
    {<<"o", "u", "t", " ", "o", "f", " ", "s", "t", "o", "c", "k">>,
     <<"u", "n", "a", "v", "a", "i", "l", "a", "b", "l", "e">>,
     <<"s", "o", "l", "d", " ", "o", "u", "t">>}

LimitedWords ==
    {<<"l", "i", "m", "i", "t", "e", "d">>,
     <<"f", "e", "w", " ", "l", "e", "f", "t">>,
     <<"o", "n", "l", "y">>}

\* lines 164-167 with the two tests in the other order
determine_availability_limited_first(elem) ==
    IF elem = Nothing THEN "in_stock"
    ELSE LET text == Lower(elem[1])
         IN  IF \E word \in LimitedWords : Contains(word, text)
             THEN "limited"
             ELSE IF \E word \in OutOfStockWords : Contains(word, text)
             THEN "out_of_stock"
             ELSE "in_stock"

\* _determine_availability(element): a missing element is in stock; else
\* the lower-cased text is searched for the words, out of stock first
determine_availability(elem) ==
    IF elem = Nothing THEN "in_stock"
    ELSE LET text == Lower(elem[1])
         IN  IF \E word \in OutOfStockWords : Contains(word, text)
             THEN "out_of_stock"
             ELSE IF \E word \in LimitedWords : Contains(word, text)
             THEN "limited"
             ELSE "in_stock"

\* one call of _determine_availability
DetermineAvailability ==
    /\ availResult = Nothing
    /\ availResult' = Some(determine_availability(availElement))
    /\ UNCHANGED availElement
    /\ UNCHANGED <<searchVars, dbVars, keyVars, rlVars, httpVars, scraperVars,
                   parseVars>>
    /\ UNCHANGED moreVars

(***************************************************************************)
(* SpecAvail: _determine_availability on the texts of availability         *)
(* elements, put together from pieces.                                     *)
(***************************************************************************)
Fragments ==
    {<<"O", "u", "t", " ", "o", "f", " ", "S", "t", "o", "c", "k">>,
     <<"o", "u", "t", " ", "o", "f">>,
     <<" ", "s", "t", "o", "c", "k">>,
     <<"C", "u", "r", "r", "e", "n", "t", "l", "y", " ", "u", "n", "a", "v", "a", "i", "l", "a", "b", "l", "e">>,
     <<"S", "O", "L", "D", " ", "O", "U", "T">>,
     <<"s", "o", "l", "d">>,
     <<"L", "i", "m", "i", "t", "e", "d">>,
     <<"f", "e", "w", " ", "l", "e", "f", "t">>,
     <<"O", "n", "l", "y", " ", "2">>,
     <<"o", "n">>,
     <<"l", "y">>,
     <<"I", "n", " ", "S", "t", "o", "c", "k">>,
     <<" ">>}

RECURSIVE Concat(_)
Concat(pieces) ==
    IF pieces = <<>> THEN <<>> ELSE Head(pieces) \o Concat(Tail(pieces))

AvailTexts == {Concat(ps) : ps \in SeqsUpTo(Fragments, MaxFragments)}

InitAvail ==
    /\ SearchIdle
    /\ DbIdle
    /\ KeyIdle
    /\ RlIdle
    /\ MoreIdle
    /\ HttpIdle
    /\ ScraperIdle
    /\ ParseIdle
    /\ availElement \in {Nothing} \cup {Some(t) : t \in AvailTexts}
    /\ availResult = Nothing

NextAvail == DetermineAvailability

SpecAvail == InitAvail /\ [][NextAvail]_vars

\* the phrase occurs in the text, letter case apart
Occurs(phrase, text) ==
    \E off \in 0..Len(text) :
        /\ off + Len(phrase) <= Len(text)
        /\ \A k \in 1..Len(phrase) : LowerChar(text[off + k]) = phrase[k]

SaysOutOfStock(text) ==
    \/ Occurs(<<"o", "u", "t", " ", "o", "f", " ", "s", "t", "o", "c", "k">>, text)
    \/ Occurs(<<"u", "n", "a", "v", "a", "i", "l", "a", "b", "l", "e">>, text)
    \/ Occurs(<<"s", "o", "l", "d", " ", "o", "u", "t">>, text)

SaysLimited(text) ==
    \/ Occurs(<<"l", "i", "m", "i", "t", "e", "d">>, text)
    \/ Occurs(<<"f", "e", "w", " ", "l", "e", "f", "t">>, text)
    \/ Occurs(<<"o", "n", "l", "y">>, text)

\* C20: _determine_availability returns out_of_stock when the lower-cased
\* text holds 'out of stock', 'unavailable' or 'sold out'; otherwise limited
\* when it holds 'limited', 'few left' or 'only'; otherwise in_stock, as for
\* a missing element. When words of both groups occur, out_of_stock wins.
C20_Availability ==
    availResult # Nothing =>
        availResult[1] =
            IF availElement = Nothing THEN "in_stock"
            ELSE IF SaysOutOfStock(availElement[1]) THEN "out_of_stock"
            ELSE IF SaysLimited(availElement[1]) THEN "limited"
            ELSE "in_stock"

\* a text with words of both groups was judged out of stock
C20_Witness ==
    /\ availResult = Some("out_of_stock")
    /\ availElement # Nothing
    /\ SaysLimited(availElement[1])
    /\ SaysOutOfStock(availElement[1])

(***************************************************************************)
(* BaseScraper._extract_url / _extract_image_url (scrapers/base.py).       *)
(***************************************************************************)
\* str.startswith(prefix)
StartsWith(prefix, s) ==
    /\ Len(prefix) <= Len(s)
    /\ \A k \in 1..Len(prefix) : s[k] = prefix[k]

\* s[n:]
Drop(s, n) == [k \in 1..(Len(s) - Min(n, Len(s))) |-> s[k + Min(n, Len(s))]]

\* the first position of a character of set cs in s, 0 when there is none
FirstOf(cs, s) ==
    IF \E k \in 1..Len(s) : s[k] \in cs
    THEN CHOOSE k \in 1..Len(s) :
            s[k] \in cs /\ \A j \in 1..(k - 1) : s[j] \notin cs
    ELSE 0

\* the characters urlsplit accepts in a scheme
SchemeChars ==
    Range(LowerLetters) \cup Range(UpperLetters) \cup {"+", "-", "."}

\* where the scheme of a URL ends: the position of its ':' when a scheme
\* precedes it, 0 when the URL has no scheme
SchemeEnd(url) ==
    LET i == FirstOf({":"}, url)
    IN  IF i > 1 /\ \A k \in 1..(i - 1) : url[k] \in SchemeChars
        THEN i ELSE 0

\* urlparse(url).scheme
UrlScheme(url) ==
    IF SchemeEnd(url) = 0 THEN <<>> ELSE Lower(Take(url, SchemeEnd(url) - 1))

\* urlparse(url).netloc: what follows '//' up to the next '/', '?' or '#'
UrlNetloc(url) ==
    LET rest == Drop(url, SchemeEnd(url))
        after == Drop(rest, 2)
        stop == FirstOf({"/", "?", "#"}, after)
    IN  IF ~StartsWith(<<"/", "/">>, rest) THEN <<>>
        ELSE IF stop = 0 THEN after ELSE Take(after, stop - 1)

\* the root-relative branch resolved against the whole base URL, its path
\* kept
ResolveHref_keep_path(href, base_url) ==
    IF StartsWith(<<"h", "t", "t", "p">>, href) THEN href
    ELSE IF StartsWith(<<"/">>, href) THEN base_url \o href
    ELSE IF base_url # <<>> THEN base_url \o <<"/">> \o href ELSE href

\* lines 130-137 and 148-155: the three branches on the attribute's value
ResolveHref(href, base_url) ==
    IF StartsWith(<<"h", "t", "t", "p">>, href) THEN href
    ELSE IF StartsWith(<<"/">>, href)
         THEN UrlScheme(base_url) \o <<":", "/", "/">> \o UrlNetloc(base_url)
              \o href
    ELSE IF base_url # <<>> THEN base_url \o <<"/">> \o href ELSE href

\* element.get(name, ''): the attribute's value, '' when the tag has none
GetAttr(tag, name) == IF tag[name] = Nothing THEN <<>> ELSE tag[name][1]

\* _extract_url(element, base_url)
extract_url(element, base_url) ==
    IF element = Nothing THEN <<>>
    ELSE ResolveHref(GetAttr(element[1], "href"), base_url)

\* _extract_image_url(element, base_url): src, or data-src when src is
\* missing or empty
extract_image_url(element, base_url) ==
    IF element = Nothing THEN <<>>
    ELSE LET src == IF GetAttr(element[1], "src") # <<>>
                    THEN GetAttr(element[1], "src")
                    ELSE GetAttr(element[1], "data_src")
         IN  ResolveHref(src, base_url)

\* one call of _extract_url or _extract_image_url
ExtractUrl ==
    /\ urlOut = Nothing
    /\ urlOut' = Some(IF urlIn.fn = "url"
                      THEN extract_url(urlIn.element, urlIn.base_url)
                      ELSE extract_image_url(urlIn.element, urlIn.base_url))
    /\ UNCHANGED urlIn
    /\ UNCHANGED <<searchVars, dbVars, keyVars, rlVars, extVars>>
    /\ UNCHANGED <<traceVars, stalled, lastSweep, lateVars>>

(***************************************************************************)
(* SpecUrl: the two extractors on link and image elements.                 *)
(***************************************************************************)
\* 'https://e.x', 'https://e.x/s', 'HTTP://e.x/s/' and no base URL
BaseUrls ==
    {<<>>,
     <<"h", "t", "t", "p", "s", ":", "/", "/", "e", ".", "x">>,
     <<"h", "t", "t", "p", "s", ":", "/", "/", "e", ".", "x", "/", "s">>,
     <<"H", "T", "T", "P", ":", "/", "/", "e", ".", "x", "/", "s", "/">>}

\* 'http://a/p', 'https://a/p', '/p', '/p/q', 'p', 'p/q', 'httpd/p' and ''
Hrefs ==
    {<<"h", "t", "t", "p", ":", "/", "/", "a", "/", "p">>,
     <<"h", "t", "t", "p", "s", ":", "/", "/", "a", "/", "p">>,
     <<"/", "p">>,
     <<"/", "p", "/", "q">>,
     <<"p">>,
     <<"p", "/", "q">>,
     <<"h", "t", "t", "p", "d", "/", "p">>,
     <<>>}

\* the tags: each attribute missing or holding one of the URLs
Tags ==
    [href : {Nothing} \cup {Some(h) : h \in Hrefs},
     src : {Nothing, Some(<<>>), Some(<<"/", "p">>), Some(<<"p">>)},
     data_src : {Nothing, Some(<<"/", "p", "/", "q">>)}]

InitUrl ==
    /\ SearchIdle
    /\ DbIdle
    /\ KeyIdle
    /\ RlIdle
    /\ HttpIdle /\ ScraperIdle /\ ParseIdle /\ AvailIdle
    /\ TraceIdle /\ SweepIdle /\ StallIdle /\ LateIdle
    /\ urlIn \in [fn : {"url", "image"},
                  element : {Nothing} \cup {Some(t) : t \in Tags},
                  base_url : BaseUrls]
    /\ urlOut = Nothing

NextUrl == ExtractUrl

SpecUrl == InitUrl /\ [][NextUrl]_vars

\* the attribute the extractor reads: href, or src with data-src behind it
UrlAttr ==
    IF urlIn.fn = "url" THEN urlIn.element[1].href
    ELSE IF urlIn.element[1].src \notin {Nothing, Some(<<>>)}
         THEN urlIn.element[1].src
         ELSE urlIn.element[1].data_src

\* the URL is absolute: it opens with 'http://' or 'https://'
IsAbsolute(u) ==
    \/ Take(u, 7) = <<"h", "t", "t", "p", ":", "/", "/">>
    \/ Take(u, 8) = <<"h", "t", "t", "p", "s", ":", "/", "/">>

\* p is 'scheme://host' of base: base opens with p, p holds '://' once with
\* no '/' before it and none after it, and base goes on with '/' or ends
IsOrigin(p, base) ==
    /\ Take(base, Len(p)) = p
    /\ \E k \in 2..(Len(p) - 3) :
          /\ p[k] = ":" /\ p[k + 1] = "/" /\ p[k + 2] = "/"
          /\ \A j \in 1..(k - 1) : p[j] \notin {"/", ":"}
          /\ \A j \in (k + 3)..Len(p) : p[j] # "/"
    /\ Len(base) = Len(p) \/ base[Len(p) + 1] = "/"

\* the result is the origin of the base URL, its scheme in lower case,
\* followed by u
OnOrigin(out, u, base) ==
    /\ Len(out) >= Len(u)
    /\ Drop(out, Len(out) - Len(u)) = u
    /\ LET p == Take(out, Len(out) - Len(u))
       IN  /\ Len(p) <= Len(base)
           /\ IsOrigin([k \in 1..Len(p) |-> LowerChar(base[k])],
                       Lower(base))
           /\ p = [k \in 1..Len(p) |->
                     IF k < FirstOf({":"}, p) THEN LowerChar(base[k])
                     ELSE base[k]]

C22_NullLocation ==
    (Done /\ get_location_from_ip(Nothing, config.geo_lookup) = Nothing) =>
       /\ response.status = "success"
       /\ response.location = Nothing
       /\ \A i \in DOMAIN response.products :
             LET p == response.products[i]
             IN  /\ p.tax = 0
                 /\ IsRounded2(p.total_price, p.base_price + p.shipping_cost)

\* C22 witness: tax is enabled, no location came back, and a listing with a
\* shipping fee is served untaxed
C22_Witness ==
    /\ Done
    /\ config.tax_enabled
    /\ response.location = Nothing
    /\ \E i \in DOMAIN response.products :
          /\ response.products[i].shipping_cost > 0
          /\ response.products[i].tax = 0
          /\ response.products[i].total_price
                = response.products[i].base_price
                    + response.products[i].shipping_cost

\* the values the tasks returned, in the order of the tasks
RECURSIVE TaskValues(_)
TaskValues(rs) ==
    IF rs = <<>> THEN <<>> ELSE Head(rs).value \o TaskValues(Tail(rs))

\* C24: the listing sequence of the response is fixed by the cache contents
\* and by what each merchant's scrape returned: it is the pipeline applied
\* to the cached listings followed by the tasks' results in task order,
\* whatever the order in which the tasks finished.
C24_CompletionOrderFree ==
    Done =>
       response.products =
          FinalProducts(CachedProducts(merchants_to_search, cached_results,
                                       config)
                          \o TaskValues(results),
                        request, response.location, config)

\* C24 witness: the second task finished before the first, and the response
\* holds a listing of each at the same total price
C24_Witness ==
    /\ Done
    /\ completed = <<2, 1>>
    /\ \E i \in DOMAIN response.products : \E j \in DOMAIN response.products :
          /\ response.products[i].merchant = tasks[1]
          /\ response.products[j].merchant = tasks[2]
          /\ response.products[i].total_price = response.products[j].total_price
          /\ i < j

\* C26: with tax enabled and a requester whose location resolves to a state
\* with rate r, the response reports that location and every listing has
\* tax == round(base_price * r, 2).
C26_TaxAtStateRate ==
    (Done /\ config.tax_enabled /\ config.geo_lookup # Nothing) =>
       /\ response.location = config.geo_lookup
       /\ \A i \in DOMAIN response.products :
             response.products[i].tax =
                calculate_tax(response.products[i].base_price,
                              get_tax_rate(config.geo_lookup[1].state, config))

\* the place of a merchant in the resolved merchant list
MerchantIndex(m) ==
    CHOOSE k \in DOMAIN merchants_to_search : merchants_to_search[k] = m

\* the listings a merchant brought, in scrape order: its cache entry or what
\* its task returned
SourceOf(m) ==
    IF m \in DOMAIN cached_results THEN cached_results[m]
    ELSE IF \E t \in DOMAIN tasks : tasks[t] = m
         THEN results[CHOOSE t \in DOMAIN tasks : tasks[t] = m].value
         ELSE <<>>

\* both out of stock, or neither
SamePartition(p, q) ==
    (p.availability = "out_of_stock") = (q.availability = "out_of_stock")

\* C27: of two response listings with equal total_price in the same stock
\* partition, the one whose merchant comes first in the resolved merchant
\* list is first, and of two of one merchant the one scraped first is
\* first, whichever merchants were served from the cache.
C27_TieOrder ==
    Done =>
       \A i \in DOMAIN response.products : \A j \in DOMAIN response.products :
          LET p == response.products[i]
              q == response.products[j]
          IN  (i < j /\ p.total_price = q.total_price /\ SamePartition(p, q)) =>
                 /\ MerchantIndex(p.merchant) <= MerchantIndex(q.merchant)
                 /\ p.merchant = q.merchant =>
                      \E a \in DOMAIN SourceOf(p.merchant) :
                         \E b \in DOMAIN SourceOf(p.merchant) :
                            /\ a <= b
                            /\ SameListing(SourceOf(p.merchant)[a], p)
                            /\ SameListing(SourceOf(p.merchant)[b], q)

\* C29: no cache entry is written for a merchant whose scrape failed or was
\* disallowed by robots.txt: the store holds no row under the key of a task
\* that ended so.
C29_WriteOnlyOnSuccess ==
    \A i \in DOMAIN tasks :
       (results[i].done /\ unitRaised[i] \in Stages \cup {"disallowed"}) =>
          ~\E r \in store : r.cache_key = RequestKey(request, tasks[i])

(***************************************************************************)
(* SpecMerchants: one search with or without an explicit merchant list,    *)
(* over settings that disable a merchant and enable one without a scraper, *)
(* the cache on or off and holding entries, empty ones among them.         *)
(***************************************************************************)
MerchantLists ==
    {Nothing, Some(<<>>), Some(<<"amazon">>), Some(<<"amazon", "newegg">>),
     Some(<<"etsy", "walmart", "amazon">>)}

RequestsMerchants ==
    [query : {<<"t", "v">>},
     merchants : MerchantLists,
     max_results : {MaxListings},
     min_price : {Nothing},
     max_price : {Nothing},
     brand : {Nothing},
     include_out_of_stock : {TRUE}]

\* settings.json: newegg enabled, amazon enabled or not, etsy enabled
\* though no scraper class exists for it, walmart not listed
ConfigsMerchants ==
    {[DefaultConfig EXCEPT
         !.cache_enabled = c,
         !.merchants = <<[name |-> "newegg", enabled |-> TRUE],
                         [name |-> "amazon", enabled |-> a],
                         [name |-> "etsy", enabled |-> TRUE]>>] :
        c \in BOOLEAN, a \in BOOLEAN}

\* what an earlier search left under the request's key: nothing, an entry
\* holding no listing, or one holding a listing
CachedPages(m) ==
    {Nothing, Some(<<>>)} \cup
    (IF m = "amazon" THEN {Some(<<x>>) : x \in Catalog(m)} ELSE {})

InitMerchants ==
    /\ request \in RequestsMerchants
    /\ config \in ConfigsMerchants
    /\ utcNow = 34
    /\ tzOffset = 0
    /\ \E cachedPage \in [Merchants -> UNION {CachedPages(m) : m \in Merchants}] :
         /\ \A m \in Merchants : cachedPage[m] \in CachedPages(m)
         /\ store = RowsFor(request, cachedPage, utcNow, tzOffset)
    /\ nextId = 3
    /\ ticks = 0
    /\ writers = [w \in 1..NumWriters |-> IdleWriter]
    /\ lastWrite = <<>>
    /\ lastRead = NoRead
    /\ phase = "start"
    /\ merchants_to_search = <<>>
    /\ cached_results = <<>>
    /\ all_products = <<>>
    /\ tasks = <<>>
    /\ results = <<>>
    /\ unitRaised = <<>>
    /\ response = NoResponse
    /\ KeyIdle
    /\ RlIdle
    /\ ExtIdle

NextMerchants ==
    \/ StartSearch
    \/ \E i \in 1..Cardinality(Merchants) : RunUnit(i)
    \/ Respond

SpecMerchants == InitMerchants /\ [][NextMerchants]_vars

\* the merchants the request consulted: a cache lookup or a scraper task
Consulted == Range(lookups) \cup Range(tasks)

\* the request names merchants
Explicit == request.merchants # Nothing /\ request.merchants[1] # <<>>

\* the merchant is switched on in the settings
EnabledInSettings(m) ==
    \E k \in DOMAIN config.merchants :
       config.merchants[k].name = m /\ config.merchants[k].enabled

Started == phase \in {"scraping", "done"}

\* C23 as stated: the merchants consulted are those of the request's list
\* when it gives one, else exactly the merchants enabled in the settings.
C23_MerchantSetAsStated ==
    Started =>
       Consulted =
          IF Explicit THEN Range(request.merchants[1])
          ELSE {config.merchants[k].name :
                   k \in {j \in DOMAIN config.merchants :
                             config.merchants[j].enabled}}

\* C23: the merchants consulted are the members of the request's list when
\* it gives a non-empty one, else of the settings, that are enabled in the
\* settings and, with caching off, have a scraper class.
C23_MerchantSet ==
    Started =>
       LET listed == IF Explicit THEN Range(request.merchants[1])
                     ELSE {config.merchants[k].name :
                              k \in DOMAIN config.merchants}
       IN  Consulted =
              {m \in listed : /\ EnabledInSettings(m)
                              /\ config.cache_enabled \/ m \in SCRAPERS}

\* C23 witness: the request named etsy, walmart and amazon, amazon is
\* disabled and walmart not in the settings, and only etsy's cache entry
\* was consulted
C23_Witness ==
    /\ phase = "done"
    /\ request.merchants = Some(<<"etsy", "walmart", "amazon">>)
    /\ ~EnabledInSettings("amazon")
    /\ Consulted = {"etsy"}

\* the entry under the request's key for merchant m has not expired
LiveEntry(m) ==
    {r \in store :
        /\ r.cache_key = RequestKey(request, m)
        /\ r.expires_at.date * 24 + r.expires_at.hour
              > LocalNow(utcNow, tzOffset)}

\* C28: with caching on, every searched merchant's cache entry has been
\* read once the tasks are queued, and a merchant with an unexpired entry
\* under the request's key, be it one holding no listing, is served from
\* the entry and gets no scraper task.
C28_ServedFromCache ==
    (phase = "scraping" /\ completed = <<>> /\ config.cache_enabled) =>
       \A m \in Range(merchants_to_search) :
          EnabledInSettings(m) =>
             /\ m \in Range(lookups)
             /\ \A r \in LiveEntry(m) :
                   /\ m \notin Range(tasks)
                   /\ m \in DOMAIN cached_results
                   /\ cached_results[m] = JsonLoads(r.data)

(***************************************************************************)
(* SpecStall: one search in which a merchant's scraper may never return.   *)
(* Every step that can be taken is taken in the end: the event loop runs   *)
(* each task that is ready and resumes the handler when the gather is      *)
(* done.                                                                   *)
(***************************************************************************)
\* a search_merchant task whose scraper returns runs to its end
RunUnitLive(i) ==
    /\ i \notin stalled
    /\ RunUnit(i)

InitStall ==
    /\ request \in {r \in Requests :
                       /\ r.max_results = MaxListings
                       /\ r.min_price = Nothing /\ r.max_price = Nothing
                       /\ r.brand = Nothing}
    /\ config = DefaultConfig
    /\ DbIdle
    /\ phase = "start"
    /\ merchants_to_search = <<>>
    /\ cached_results = <<>>
    /\ all_products = <<>>
    /\ tasks = <<>>
    /\ results = <<>>
    /\ unitRaised = <<>>
    /\ response = NoResponse
    /\ KeyIdle
    /\ RlIdle
    /\ HttpIdle /\ ScraperIdle /\ ParseIdle /\ AvailIdle
    /\ UrlIdle /\ TraceIdle /\ SweepIdle /\ LateIdle
    /\ stalled \in {{}, {1}, {2}}

NextStall ==
    \/ StartSearch
    \/ \E i \in 1..Cardinality(Merchants) : RunUnitLive(i)
    \/ Respond

SpecStall ==
    /\ InitStall
    /\ [][NextStall]_vars
    /\ WF_vars(StartSearch)
    /\ \A i \in 1..Cardinality(Merchants) : WF_vars(RunUnitLive(i))
    /\ WF_vars(Respond)

\* C25: a search request ends in a response in the end, also when one
\* merchant's scraper unit never completes.
C25_EventuallyResponds == <>(phase = "done")

(***************************************************************************)
(* Database.cleanup_expired (database.py) and startup_event (main.py).     *)
(***************************************************************************)
\* DELETE FROM search_cache WHERE expires_at < datetime('now'): the rows
\* that stay
cleanup_expired(rows, utc) ==
    {r \in rows : ~TextGreater(SqlDatetimeNow(utc), r.expires_at)}

\* startup_event: init_db creates the tables that are missing and leaves
\* the rows of an existing file alone, then cleanup_expired runs
StartupEvent ==
    /\ \A w \in DOMAIN writers : writers[w].pc = "idle"
    /\ store' = cleanup_expired(store, utcNow)
    /\ lastSweep' = Some([before |-> store,
                          after |-> cleanup_expired(store, utcNow),
                          utc |-> utcNow])
    /\ UNCHANGED <<nextId, utcNow, ticks, tzOffset, writers, lastWrite, lastRead>>
    /\ UNCHANGED <<searchVars, keyVars, rlVars, extVars>>
    /\ UNCHANGED <<urlVars, traceVars, stalled, lateVars>>

(***************************************************************************)
(* SpecSweep: the process writes cache entries, hours pass, and the        *)
(* process is started again over the same database file, in any time zone. *)
(***************************************************************************)
InitSweep == InitCache

NextSweep ==
    \/ \E k \in CacheKeys, d \in CacheData, ttl \in 1..2 :
          CacheSearchBegin(1, k, d, ttl)
    \/ CacheSearchCommit(1)
    \/ TickHour
    \/ StartupEvent

SpecSweep == InitSweep /\ [][NextSweep]_vars

\* the hour, in local time, a row's expires_at stands for
ExpiryHour(r) == r.expires_at.date * 24 + r.expires_at.hour

\* C30: the cleanup run at startup deletes every entry whose recorded expiry
\* has passed and no entry whose expiry is still to come.
C30_SweepExact ==
    lastSweep # Nothing =>
       \A r \in lastSweep[1].before :
          /\ ExpiryHour(r) < LocalNow(lastSweep[1].utc, tzOffset)
                => r \notin lastSweep[1].after
          /\ ExpiryHour(r) > LocalNow(lastSweep[1].utc, tzOffset)
                => r \in lastSweep[1].after

\* the check_robots_txt calls, over all instances, that went out to fetch
\* the robots.txt of a domain
RobotsFetchesOf(domain) ==
    {<<i, k>> \in (DOMAIN scrapers) \X (1..MaxSearches) :
        /\ SearchDomain(scrapers[i].merchant) = domain
        /\ k \in DOMAIN scrapers[i].robots
        /\ ~scrapers[i].robots[k].cached}

\* C31: the robots.txt of a domain is fetched at most once in the life of
\* the process, whichever scraper instances ask and whether or not the
\* first fetch failed.
C31_RobotsFetchedOnce ==
    \A i \in DOMAIN scrapers :
        Cardinality(RobotsFetchesOf(SearchDomain(scrapers[i].merchant))) <= 1

\* the listings owed for a result set: one per result with a recoverable
\* price, carrying that price, in the order of the results
RECURSIVE PricedListings(_)
PricedListings(rs) ==
    IF rs = <<>> THEN <<>>
    ELSE (IF Head(rs).price # Nothing
          THEN <<[title |-> Head(rs).title, price |-> Head(rs).price[1]]>>
          ELSE <<>>)
         \o PricedListings(Tail(rs))

\* C32: DuckDuckGoScraper.search returns a listing for a result exactly
\* when a price is recoverable from its title or snippet, priced at that
\* value; a result without one is dropped and the results after it are
\* still processed. Stated for result sets that read without raising and
\* hold no price of 0.
C32_DdgPriced ==
    (/\ parseOut # Nothing
     /\ parseIn.variant = "duckduckgo"
     /\ \A k \in DOMAIN Considered :
           ~Considered[k].broken /\ Considered[k].price # Some(0)) =>
        [k \in DOMAIN parseOut[1] |->
            [title |-> parseOut[1][k].title, price |-> parseOut[1][k].price]]
           = PricedListings(Considered)

(***************************************************************************)
(* The browser session of a scraper unit: BaseScraper.__aenter__ and       *)
(* __aexit__ (base.py) under the `async with` of search_merchant           *)
(* (routes.py).                                                            *)
(***************************************************************************)
\* a unit before its scraper is constructed; requires_js comes from the
\* scraper's configuration
NewSession(requires_js) ==
    [requires_js |-> requires_js, pc |-> "new", browser |-> "none",
     page |-> FALSE, returned |-> "none"]

\* where __aenter__ can raise: async_playwright().start(), chromium.launch,
\* browser.new_page
EnterFailures == {"start", "launch", "new_page"}

\* `async with sc() as scraper`, lines 30-36: without requires_js nothing is
\* launched. What __aenter__ raises leaves the `async with` without
\* __aexit__ being called, and search_merchant's except returns []
Aenter(i, failure) ==
    /\ sessions[i].pc = "new"
    /\ sessions' = [sessions EXCEPT ![i] =
          IF ~sessions[i].requires_js
          THEN [@ EXCEPT !.pc = "entered"]
          ELSE CASE failure \in {"start", "launch"} ->
                      [@ EXCEPT !.pc = "done", !.returned = "empty"]
                 [] failure = "new_page" ->
                      [@ EXCEPT !.browser = "open", !.pc = "done",
                                !.returned = "empty"]
                 [] OTHER ->
                      [@ EXCEPT !.browser = "open", !.page = TRUE,
                                !.pc = "entered"]]
    /\ UNCHANGED <<callIn, callOut, proxy>>
    /\ UNCHANGED <<searchVars, dbVars, keyVars, rlVars, extVars>>
    /\ UNCHANGED <<urlVars, traceVars, stalled, lastSweep>>

\* scraper.search inside the `async with`: it returns, or what it raises
\* leaves the block
SessionSearch(i, raised) ==
    /\ sessions[i].pc = "entered"
    /\ sessions' = [sessions EXCEPT ![i] =
          [@ EXCEPT !.pc = "leaving",
                    !.returned = IF raised THEN "empty" ELSE "products"]]
    /\ UNCHANGED <<callIn, callOut, proxy>>
    /\ UNCHANGED <<searchVars, dbVars, keyVars, rlVars, extVars>>
    /\ UNCHANGED <<urlVars, traceVars, stalled, lastSweep>>

\* __aexit__, lines 38-41: the browser, if there is one, is closed; the
\* unit is done
Aexit(i) ==
    /\ sessions[i].pc = "leaving"
    /\ sessions' = [sessions EXCEPT ![i] =
          [@ EXCEPT !.pc = "done",
                    !.browser = IF @ = "open" THEN "closed" ELSE @]]
    /\ UNCHANGED <<callIn, callOut, proxy>>
    /\ UNCHANGED <<searchVars, dbVars, keyVars, rlVars, extVars>>
    /\ UNCHANGED <<urlVars, traceVars, stalled, lastSweep>>

(***************************************************************************)
(* SpecSession: the units of a request, each with or without a browser,    *)
(* running concurrently.                                                   *)
(***************************************************************************)
InitSession ==
    /\ SearchIdle
    /\ DbIdle
    /\ KeyIdle
    /\ RlIdle
    /\ HttpIdle /\ ScraperIdle /\ ParseIdle /\ AvailIdle
    /\ UrlIdle /\ TraceIdle /\ SweepIdle /\ StallIdle
    /\ CallIdle /\ ProxyIdle
    /\ sessions \in [1..NumScrapers -> {NewSession(js) : js \in BOOLEAN}]

NextSession ==
    \/ \E i \in 1..NumScrapers, failure \in EnterFailures \cup {"none"} :
          Aenter(i, failure)
    \/ \E i \in 1..NumScrapers, raised \in BOOLEAN : SessionSearch(i, raised)
    \/ \E i \in 1..NumScrapers : Aexit(i)

SpecSession == InitSession /\ [][NextSession]_vars

\* C33: when a merchant's unit is done, no browser it launched is still
\* open: after a search that returned, after one that raised, and after a
\* failure of the set-up that came when the browser was launched.
C33_BrowserClosed ==
    \A i \in DOMAIN sessions :
        sessions[i].pc = "done" => sessions[i].browser # "open"

(***************************************************************************)
(* PriceParser.format_price and parse_price on text (price_parser.py).     *)
(***************************************************************************)
Digits == <<"0", "1", "2", "3", "4", "5", "6", "7", "8", "9">>

IsDigit(c) == \E d \in DOMAIN Digits : Digits[d] = c

DigitVal(c) == (CHOOSE d \in DOMAIN Digits : Digits[d] = c) - 1

\* str(n) for a natural number
RECURSIVE DecimalStr(_)
DecimalStr(n) ==
    IF n < 10 THEN <<Digits[n + 1]>>
    ELSE DecimalStr(n \div 10) \o <<Digits[(n % 10) + 1]>>

\* int(digits) for a run of digits
RECURSIVE IntVal(_)
IntVal(ds) ==
    IF ds = <<>> THEN 0
    ELSE 10 * IntVal(SubSeq(ds, 1, Len(ds) - 1)) + DigitVal(ds[Len(ds)])

\* the length of the run of digits of s that starts at position i
RECURSIVE DigitRun(_, _)
DigitRun(s, i) ==
    IF i > Len(s) \/ ~IsDigit(s[i]) THEN 0 ELSE 1 + DigitRun(s, i + 1)

\* str.strip() for the blank
RECURSIVE Strip(_)
Strip(s) ==
    IF s = <<>> THEN s
    ELSE IF Head(s) = " " THEN Strip(Tail(s))
    ELSE IF s[Len(s)] = " " THEN Strip(SubSeq(s, 1, Len(s) - 1))
    ELSE s

\* str.replace(",", "")
RECURSIVE RemoveCommas(_)
RemoveCommas(s) ==
    IF s = <<>> THEN s
    ELSE IF Head(s) = "," THEN RemoveCommas(Tail(s))
    ELSE <<Head(s)>> \o RemoveCommas(Tail(s))

\* the mills a fraction's digits stand for: its first three digits
FracMills(ds) ==
    (IF Len(ds) >= 1 THEN 100 * DigitVal(ds[1]) ELSE 0)
    + (IF Len(ds) >= 2 THEN 10 * DigitVal(ds[2]) ELSE 0)
    + (IF Len(ds) >= 3 THEN DigitVal(ds[3]) ELSE 0)

\* format_price(price): f"${price:.2f}"
format_price(price) ==
    LET cents == RoundHalfEven(price, 10)
    IN  <<"$">> \o DecimalStr(cents \div 100) \o <<".">>
        \o <<Digits[((cents \div 10) % 10) + 1], Digits[(cents % 10) + 1]>>

\* parse_price reading the whole dollars only
parse_price_whole(price_text) ==
    IF price_text = <<>> THEN Nothing
    ELSE LET t == RemoveCommas(Strip(price_text))
             i == FirstOf(Range(Digits), t)
         IN  IF i = 0 THEN Nothing
             ELSE Some(1000 * IntVal(SubSeq(t, i, i + DigitRun(t, i) - 1)))

\* parse_price(price_text): strip, drop the commas, the first match of
\* (\d+\.?\d*), float() of it, in mills
parse_price(price_text) ==
    IF price_text = <<>> THEN Nothing
    ELSE LET t == RemoveCommas(Strip(price_text))
             i == FirstOf(Range(Digits), t)
         IN  IF i = 0 THEN Nothing
             ELSE LET n == DigitRun(t, i)
                      dot == i + n <= Len(t) /\ t[i + n] = "."
                      m == IF dot THEN DigitRun(t, i + n + 1) ELSE 0
                  IN  Some(1000 * IntVal(SubSeq(t, i, i + n - 1))
                           + FracMills(SubSeq(t, i + n + 1, i + n + m)))

(***************************************************************************)
(* SpecCalc: one call of a pricing function, over the settings and the     *)
(* arguments it can meet.                                                  *)
(***************************************************************************)
\* settings.json: the default tax rate, 0 or 5%; shipping and tax on or off
ConfigsCalc ==
    {[DefaultConfig EXCEPT !.tax_default_rate = d, !.shipping_enabled = s,
                           !.tax_enabled = t] :
        d \in {0, 5000}, s \in BOOLEAN, t \in BOOLEAN}

\* state codes: absent, empty, in the table in either case, not in it
StateArgs ==
    {Nothing, Some(""), Some("CA"), Some("ca"), Some("Ca"), Some("NY"),
     Some("OR"), Some("ZZ"), Some("zz")}

\* merchant names: the six of the table, other cases of them, one unknown
MerchantArgs ==
    {"amazon", "walmart", "target", "bestbuy", "newegg", "ebay",
     "Amazon", "AMAZON", "NewEgg", "eBay", "Walmart", "etsy", "Etsy"}

\* base prices around each threshold, in mills
ShipPrices ==
    {0, 24990, 25000, 25010, 34990, 35000, 35010, 49990, 50000, 50010, 99990}

\* cent-precision amounts, in mills: below 1, around 1, 1000 and more
TripPrices ==
    {0, 10, 50, 500, 990, 1000, 10990, 999990, 1000000, 1234560}

\* the listings enriched: as the scrapers build them
EnrichProducts ==
    {Scraped("amazon", <<"b">>, 25000, "in_stock"),
     Scraped("amazon", <<"c">>, 30000, "limited"),
     Scraped("newegg", <<"a">>, 49990, "out_of_stock"),
     Scraped("ebay", <<"e">>, 10990, "in_stock")}

Calls ==
    [fn : {"get_tax_rate"}, state : StateArgs]
    \cup [fn : {"estimate_shipping"}, merchant : MerchantArgs,
          base_price : ShipPrices]
    \cup [fn : {"round_trip"}, price : TripPrices]
    \cup [fn : {"enrich"}, product : EnrichProducts,
          location : {Nothing, Some([state |-> "CA"]), Some([state |-> "ZZ"])}]

\* geolocation.py 107-113; `not state` holds of None and of ''
GetTaxRate ==
    /\ callIn.fn = "get_tax_rate"
    /\ callOut = Nothing
    /\ callOut' = Some(get_tax_rate(IF callIn.state = Nothing THEN ""
                                    ELSE callIn.state[1], config))
    /\ UNCHANGED <<sessions, callIn, proxy>>
    /\ UNCHANGED <<searchVars, dbVars, keyVars, rlVars, extVars>>
    /\ UNCHANGED <<urlVars, traceVars, stalled, lastSweep>>

\* geolocation.py 115-131
EstimateShipping ==
    /\ callIn.fn = "estimate_shipping"
    /\ callOut = Nothing
    /\ callOut' = Some(estimate_shipping(callIn.merchant, callIn.base_price,
                                         config))
    /\ UNCHANGED <<sessions, callIn, proxy>>
    /\ UNCHANGED <<searchVars, dbVars, keyVars, rlVars, extVars>>
    /\ UNCHANGED <<urlVars, traceVars, stalled, lastSweep>>

\* parse_price(format_price(x))
RoundTrip ==
    /\ callIn.fn = "round_trip"
    /\ callOut = Nothing
    /\ callOut' = Some(parse_price(format_price(callIn.price)))
    /\ UNCHANGED <<sessions, callIn, proxy>>
    /\ UNCHANGED <<searchVars, dbVars, keyVars, rlVars, extVars>>
    /\ UNCHANGED <<urlVars, traceVars, stalled, lastSweep>>

\* routes.py 63-94: product.model_dump() copies the fields into a dict, the
\* dict is updated and Product(**product_dict) is returned; the argument is
\* never assigned to
Enrich ==
    /\ callIn.fn = "enrich"
    /\ callOut = Nothing
    /\ callOut' = Some(enrich_product_with_tax_shipping(callIn.product,
                                                        callIn.location,
                                                        config))
    /\ callIn' = callIn
    /\ UNCHANGED <<sessions, proxy>>
    /\ UNCHANGED <<searchVars, dbVars, keyVars, rlVars, extVars>>
    /\ UNCHANGED <<urlVars, traceVars, stalled, lastSweep>>

InitCalc ==
    /\ request = CHOOSE r \in Requests : TRUE
    /\ config \in ConfigsCalc
    /\ phase = "idle"
    /\ merchants_to_search = <<>>
    /\ cached_results = <<>>
    /\ all_products = <<>>
    /\ tasks = <<>>
    /\ results = <<>>
    /\ unitRaised = <<>>
    /\ response = NoResponse
    /\ DbIdle
    /\ KeyIdle
    /\ RlIdle
    /\ HttpIdle /\ ScraperIdle /\ ParseIdle /\ AvailIdle
    /\ UrlIdle /\ TraceIdle /\ SweepIdle /\ StallIdle
    /\ SessionIdle /\ ProxyIdle
    /\ callIn \in Calls
    /\ callOut = Nothing

NextCalc ==
    \/ GetTaxRate
    \/ EstimateShipping
    \/ RoundTrip
    \/ Enrich

SpecCalc == InitCalc /\ [][NextCalc]_vars

\* the call has returned
Returned(fn) == callIn.fn = fn /\ callOut # Nothing

\* C34: get_tax_rate returns the table's rate for a code of the table, in
\* either case, and the configured default rate when the state is absent or
\* empty and when its code is not in the table.
C34_TaxRate ==
    Returned("get_tax_rate") =>
        LET st == IF callIn.state = Nothing THEN "" ELSE callIn.state[1]
        IN  callOut[1] =
               CASE st \in {"CA", "ca", "Ca"} -> 7250
                 [] st = "NY" -> 4000
                 [] st = "OR" -> 0
                 [] OTHER -> config.tax_default_rate

\* the names the shipping table recognises, in the cases the model writes
TableNames ==
    {"amazon", "Amazon", "AMAZON", "walmart", "Walmart", "target", "bestbuy",
     "newegg", "NewEgg", "ebay", "eBay"}

\* the names of eBay among them
EbayNames == {"ebay", "eBay"}

\* the threshold and the fee the table gives a merchant that has one
ThresholdOf(m) ==
    CASE m \in {"amazon", "Amazon", "AMAZON"} -> [T |-> 25000, F |-> 5990]
      [] m \in {"walmart", "Walmart", "target", "bestbuy"} ->
            [T |-> 35000, F |-> 5990]
      [] m \in {"newegg", "NewEgg"} -> [T |-> 50000, F |-> 7990]

\* C35 as stated: with shipping enabled every recognised merchant has a
\* threshold T that some price exceeds and a fee F, with 0 charged above T
\* and F at or below it.
C35_ShippingAsStated ==
    (Returned("estimate_shipping") /\ config.shipping_enabled
       /\ callIn.merchant \in TableNames) =>
        \E T \in ShipPrices, F \in {5990, 7990} :
            /\ \E p \in ShipPrices : p > T
            /\ \A p \in ShipPrices :
                  estimate_shipping(callIn.merchant, p, config) =
                      IF p > T THEN 0 ELSE F
            /\ callOut[1] = IF callIn.base_price > T THEN 0 ELSE F

\* C35: with shipping enabled amazon, walmart, target, bestbuy and newegg
\* ship free above their threshold (25, 35, 35, 35, 50) and charge their
\* flat fee (5.99, newegg 7.99) at or below it, the threshold price itself
\* included; ebay, which has no threshold, and every unrecognised merchant
\* pay 5.99 at any price; the names are matched in any case.
C35_Shipping ==
    (Returned("estimate_shipping") /\ config.shipping_enabled) =>
        callOut[1] =
            IF callIn.merchant \in TableNames \ EbayNames
            THEN IF callIn.base_price > ThresholdOf(callIn.merchant).T
                 THEN 0 ELSE ThresholdOf(callIn.merchant).F
            ELSE 5990

\* a merchant written in capitals charged its fee at exactly its threshold
C35_Witness ==
    /\ Returned("estimate_shipping")
    /\ config.shipping_enabled
    /\ callIn.merchant = "AMAZON"
    /\ callIn.base_price = 25000
    /\ callOut = Some(5990)

\* C36: for every non-negative cent-precision amount x, parsing the text
\* format_price makes of x gives x rounded to two decimals back, for the
\* amounts below 1 and those of 1000 and more too.
C36_RoundTrip ==
    Returned("round_trip") => callOut[1] = Some(normalize_price(callIn.price))

\* an amount below 1 and one above 1000 have made the round trip
C36_Witness ==
    /\ Returned("round_trip")
    /\ callIn.price \in {50, 1234560}
    /\ callOut[1] = Some(callIn.price)

\* the fields of a listing the enrichment may write
EnrichedFields == {"shipping_cost", "tax", "total_price", "price"}

\* C37: enrich_product_with_tax_shipping leaves its argument as it was and
\* returns a listing with the same fields that differs from the argument
\* in shipping_cost, tax, total_price and price at most.
C37_EnrichFrame ==
    [][(callIn.fn = "enrich" /\ callOut = Nothing /\ callOut' # Nothing) =>
          /\ callIn' = callIn
          /\ DOMAIN callOut'[1] = DOMAIN callIn.product
          /\ \A f \in (DOMAIN callIn.product) \ EnrichedFields :
                callOut'[1][f] = callIn.product[f]]_vars

\* an enrichment has returned a listing whose total and shown price moved
C37_Witness ==
    /\ Returned("enrich")
    /\ callOut[1].total_price # callIn.product.total_price
    /\ callOut[1].price # callIn.product.price
    /\ callOut[1].shipping_cost > 0
    /\ callOut[1].tax > 0

(***************************************************************************)
(* GET /api/image-proxy (routes.py 294-463).  A URL is the sequence of its *)
(* characters, with a host label, a port and a path segment each written   *)
(* as one element.                                                         *)
(***************************************************************************)
\* max_redirects
max_redirects == 5

\* str.lower() on the host labels of the model
LowerLabel(t) ==
    CASE t = "IMG" -> "img" [] t = "AMAZON" -> "amazon" [] t = "COM" -> "com"
      [] OTHER -> LowerChar(t)

\* the last position of character c in s, 0 when there is none
LastOf(c, s) ==
    IF \E k \in 1..Len(s) : s[k] = c
    THEN CHOOSE k \in 1..Len(s) :
            s[k] = c /\ \A j \in (k + 1)..Len(s) : s[j] # c
    ELSE 0

\* str.endswith(suffix)
EndsWith(suffix, s) ==
    /\ Len(suffix) <= Len(s)
    /\ SubSeq(s, Len(s) - Len(suffix) + 1, Len(s)) = suffix

\* urlparse(url).hostname: the netloc after its last '@' and before its
\* ':', in lower case; None when nothing is left
UrlHostname(url) ==
    LET netloc == UrlNetloc(url)
        hostport == Drop(netloc, LastOf("@", netloc))
        colon == FirstOf({":"}, hostport)
        host == IF colon = 0 THEN hostport ELSE Take(hostport, colon - 1)
    IN  IF host = <<>> THEN Nothing
        ELSE Some([k \in 1..Len(host) |-> LowerLabel(host[k])])

\* blocked_hosts, lines 316-323 (the bracketed IPv6 literal left out)
blocked_hosts ==
    {<<"localhost">>,
     <<"127", ".", "0", ".", "0", ".", "1">>,
     <<"0", ".", "0", ".", "0", ".", "0">>,
     <<"169", ".", "254", ".", "169", ".", "254">>,
     <<"metadata", ".", "google", ".", "internal">>}

\* the second octets of 172.16.0.0/12
PrivateOctets ==
    {"16", "17", "18", "19", "20", "21", "22", "23", "24", "25", "26", "27",
     "28", "29", "30", "31"}

\* lines 329-342 and 394-406: 10., 192.168. and 172.16-31.
IsPrivateRange(hostname) ==
    \/ StartsWith(<<"10", ".">>, hostname)
    \/ StartsWith(<<"192", ".", "168", ".">>, hostname)
    \/ /\ StartsWith(<<"172", ".">>, hostname)
       /\ Len(hostname) >= 3
       /\ hostname[3] \in PrivateOctets

\* allowed_domains, lines 345-358
allowed_domains ==
    {<<"amazon", ".", "com">>, <<"amazonaws", ".", "com">>,
     <<"ebay", ".", "com">>, <<"ebayimg", ".", "com">>,
     <<"walmart", ".", "com">>, <<"walmartimages", ".", "com">>,
     <<"target", ".", "com">>, <<"targetimg1", ".", "com">>,
     <<"bestbuy", ".", "com">>, <<"bbystatic", ".", "com">>,
     <<"newegg", ".", "com">>, <<"neweggimages", ".", "com">>}

\* lines 361-373 and 409-417: the host is a domain of the list or ends
\* with '.' + one of them
IsAllowedHost(hostname) ==
    \/ hostname \in allowed_domains
    \/ \E domain \in allowed_domains :
          hostname = domain \/ EndsWith(<<".">> \o domain, hostname)

HttpSchemes == {<<"h", "t", "t", "p">>, <<"h", "t", "t", "p", "s">>}

\* lines 299-376: the status the checks of the requested URL raise, 0 when
\* they all pass
ValidateProxyUrl(url) ==
    IF UrlScheme(url) \notin HttpSchemes THEN 400
    ELSE IF UrlHostname(url) = Nothing THEN 400
    ELSE IF UrlHostname(url)[1] \in blocked_hosts THEN 403
    ELSE IF IsPrivateRange(UrlHostname(url)[1]) THEN 403
    ELSE IF ~IsAllowedHost(UrlHostname(url)[1]) THEN 403
    ELSE 0

\* redirects followed wherever they lead
validate_redirect_url_any(redirect_url) == TRUE

\* validate_redirect_url(redirect_url), lines 379-419
validate_redirect_url(redirect_url) ==
    IF UrlHostname(redirect_url) = Nothing THEN FALSE
    ELSE IF UrlHostname(redirect_url)[1] \in blocked_hosts THEN FALSE
    ELSE IF IsPrivateRange(UrlHostname(redirect_url)[1]) THEN FALSE
    ELSE IsAllowedHost(UrlHostname(redirect_url)[1])

\* lines 441-445: a Location that does not start with http:// or https://
\* is appended to the scheme and netloc of the current URL
AbsoluteRedirect(redirect_url, current_url) ==
    IF \/ StartsWith(<<"h", "t", "t", "p", ":", "/", "/">>, redirect_url)
       \/ StartsWith(<<"h", "t", "t", "p", "s", ":", "/", "/">>, redirect_url)
    THEN redirect_url
    ELSE UrlScheme(current_url) \o <<":", "/", "/">> \o UrlNetloc(current_url)
         \o redirect_url

Http == <<"h", "t", "t", "p", ":", "/", "/">>
Https == <<"h", "t", "t", "p", "s", ":", "/", "/">>

\* the URLs requested of the proxy
ProxyUrls ==
    {Https \o <<"img", ".", "amazon", ".", "com", "/", "i">>,
     Http \o <<"amazon", ".", "com", "/", "i">>,
     Https \o <<"IMG", ".", "AMAZON", ".", "COM", "/", "i">>,
     Https \o <<"amazon", ".", "com", ":", "443", "/", "i">>,
     Https \o <<"evil", ".", "com", "/", "i">>,
     Https \o <<"evilamazon", ".", "com", "/", "i">>,
     Https \o <<"amazon", ".", "com", "@", "evil", ".", "com", "/", "i">>,
     <<"f", "t", "p", ":", "/", "/", "amazon", ".", "com", "/", "i">>,
     Http \o <<"127", ".", "0", ".", "0", ".", "1", "/", "i">>,
     Http \o <<"10", ".", "amazon", ".", "com", "/", "i">>,
     Http \o <<"172", ".", "16", ".", "amazon", ".", "com", "/", "i">>,
     <<"invalid">>}

\* the Location headers of the redirects answered, None when there is none
RedirectLocations ==
    {Nothing,
     Some(Https \o <<"img", ".", "ebayimg", ".", "com", "/", "j">>),
     Some(Http \o <<"evil", ".", "com", "/", "j">>),
     Some(Http \o <<"169", ".", "254", ".", "169", ".", "254", "/", "j">>),
     Some(<<"/", "j">>),
     Some(<<"j">>),
     Some(<<"@", "evil", ".", "com", "/", "j">>),
     Some(<<".", "ebay", ".", "com", "/", "j">>),
     Some(<<"f", "t", "p", ":", "/", "/", "amazon", ".", "com", "/", "j">>),
     Some(<<"H", "T", "T", "P", ":", "/", "/", "evil", ".", "com", "/", "j">>)}

NewProxy(url) ==
    [url |-> url, pc |-> "start", current_url |-> url, hops |-> 0,
     gets |-> {}, status |-> 0]

\* lines 294-376: the checks made of the requested URL before any request
ProxyValidate ==
    /\ proxy # <<>>
    /\ proxy.pc = "start"
    /\ proxy' = IF ValidateProxyUrl(proxy.url) = 0
                THEN [proxy EXCEPT !.pc = "fetch"]
                ELSE [proxy EXCEPT !.pc = "rejected",
                                   !.status = ValidateProxyUrl(proxy.url)]
    /\ UNCHANGED <<sessions, callIn, callOut>>
    /\ UNCHANGED <<searchVars, dbVars, keyVars, rlVars, extVars>>
    /\ UNCHANGED <<urlVars, traceVars, stalled, lastSweep>>

\* lines 428-451: one turn of the loop: GET current_url; a response that is
\* no redirect ends the loop, a redirect is made absolute, validated and
\* followed; the loop makes max_redirects turns at most
ProxyGet(redirect, location) ==
    /\ proxy # <<>>
    /\ proxy.pc = "fetch"
    /\ proxy.hops < max_redirects
    /\ LET sent == [proxy EXCEPT !.gets = @ \cup {proxy.current_url}]
           target == AbsoluteRedirect(location[1], proxy.current_url)
       IN  proxy' =
             IF ~redirect THEN [sent EXCEPT !.pc = "done", !.status = 200]
             ELSE IF location = Nothing \/ location = Some(<<>>)
             THEN [sent EXCEPT !.pc = "rejected", !.status = 400]
             ELSE IF ~validate_redirect_url(target)
             THEN [sent EXCEPT !.pc = "rejected", !.status = 403]
             ELSE [sent EXCEPT !.current_url = target,
                               !.hops = @ + 1,
                               !.pc = IF proxy.hops + 1 = max_redirects
                                      THEN "done" ELSE "fetch"]
    /\ UNCHANGED <<sessions, callIn, callOut>>
    /\ UNCHANGED <<searchVars, dbVars, keyVars, rlVars, extVars>>
    /\ UNCHANGED <<urlVars, traceVars, stalled, lastSweep>>

(***************************************************************************)
(* SpecProxy: one request of the image proxy and the redirects its GETs    *)
(* are answered with.                                                      *)
(***************************************************************************)
InitProxy ==
    /\ SearchIdle
    /\ DbIdle
    /\ KeyIdle
    /\ RlIdle
    /\ HttpIdle /\ ScraperIdle /\ ParseIdle /\ AvailIdle
    /\ UrlIdle /\ TraceIdle /\ SweepIdle /\ StallIdle
    /\ SessionIdle /\ CallIdle
    /\ proxy \in {NewProxy(url) : url \in ProxyUrls}

NextProxy ==
    \/ ProxyValidate
    \/ \E redirect \in BOOLEAN, location \in RedirectLocations :
          ProxyGet(redirect, location)

SpecProxy == InitProxy /\ [][NextProxy]_vars

\* the host of a URL as a client reads it: what stands between the '//'
\* (after the last '@' of the authority) and the port, path, query or
\* fragment
HostLabels(url) ==
    LET at == LastOf("@", UrlNetloc(url))
        rest == Drop(UrlNetloc(url), at)
        stop == FirstOf({":"}, rest)
    IN  IF stop = 0 THEN rest ELSE Take(rest, stop - 1)

\* a host that is an allowed image domain or a proper subdomain of one
OnAllowedDomain(host) ==
    \E domain \in allowed_domains :
        \/ Lower([k \in 1..Len(host) |-> LowerLabel(host[k])]) = domain
        \/ /\ Len(host) > Len(domain) + 1
           /\ host[Len(host) - Len(domain)] = "."
           /\ \A k \in 1..Len(domain) :
                 LowerLabel(host[Len(host) - Len(domain) + k]) = domain[k]

\* C38: every GET proxy_image issues goes to an http or https URL whose
\* host is an allowed merchant image domain or a proper subdomain of one:
\* the requested URL and the target of every redirect followed, given by an
\* absolute or by a relative Location.
C38_AllowedHostsOnly ==
    proxy # <<>> =>
        \A u \in proxy.gets :
            /\ StartsWith(Http, Lower(u)) \/ StartsWith(Https, Lower(u))
            /\ OnAllowedDomain(HostLabels(u))

\* GETs have gone to the requested URL, to the target of a relative
\* Location and to that of an absolute one
C38_Witness ==
    /\ proxy # <<>>
    /\ proxy.pc = "done"
    /\ proxy.url \in proxy.gets
    /\ Https \o <<"img", ".", "amazon", ".", "com", "/", "j">> \in proxy.gets
    /\ Https \o <<"img", ".", "ebayimg", ".", "com", "/", "j">> \in proxy.gets
    /\ \E u \in proxy.gets :
          EndsWith(<<".", "ebay", ".", "com", "/", "j">>, u)

(***************************************************************************)
(* SpecRepeat: one search whose merchant list names a merchant once or     *)
(* more than once.                                                         *)
(***************************************************************************)
RequestsRepeat ==
    [query : {<<"t", "v">>},
     merchants : {Some(<<"amazon", "newegg">>), Some(<<"amazon", "amazon">>)},
     max_results : {MaxListings},
     min_price : {Nothing},
     max_price : {Nothing},
     brand : {Nothing},
     include_out_of_stock : {TRUE}]

InitRepeat ==
    /\ request \in RequestsRepeat
    /\ config \in {[DefaultConfig EXCEPT !.cache_enabled = c] : c \in BOOLEAN}
    /\ utcNow = 34
    /\ tzOffset = 0
    /\ \E cachedPage \in [Merchants -> UNION {CachedPages(m) : m \in Merchants}] :
         /\ \A m \in Merchants : cachedPage[m] \in CachedPages(m)
         /\ store = RowsFor(request, cachedPage, utcNow, tzOffset)
    /\ nextId = 3
    /\ ticks = 0
    /\ writers = [w \in 1..NumWriters |-> IdleWriter]
    /\ lastWrite = <<>>
    /\ lastRead = NoRead
    /\ phase = "start"
    /\ merchants_to_search = <<>>
    /\ cached_results = <<>>
    /\ all_products = <<>>
    /\ tasks = <<>>
    /\ results = <<>>
    /\ unitRaised = <<>>
    /\ response = NoResponse
    /\ KeyIdle
    /\ RlIdle
    /\ ExtIdle

NextRepeat ==
    \/ StartSearch
    \/ \E i \in DOMAIN tasks : RunUnit(i)
    \/ Respond

SpecRepeat == InitRepeat /\ [][NextRepeat]_vars

\* a sequence that names nothing twice
NoRepeats(s) == \A i, j \in DOMAIN s : s[i] = s[j] => i = j

\* the number of listings of all_products the cache served for merchant m
CachedCount(m) ==
    IF m \in DOMAIN cached_results THEN Len(cached_results[m]) ELSE 0

PricedEntries ==
    {k \in DOMAIN Considered :
        /\ ~Considered[k].broken
        /\ Considered[k].title # <<>>
        /\ Considered[k].price # Nothing}

\* C40: a structural scraper returns one listing for each entry whose price
\* it parsed from the page and none for an entry whose price is missing or
\* cannot be parsed: no listing stands for such an entry with a base price
\* of 0.
C40_PriceFromPage ==
    (parseOut # Nothing /\ parseIn.variant = "amazon") =>
        /\ Len(parseOut[1]) = Cardinality(PricedEntries)
        /\ \A i \in DOMAIN parseOut[1] :
              \E k \in PricedEntries :
                  parseOut[1][i].base_price = Considered[k].price[1]

====
